---- MODULE Spec2Model ----
(***************************************************************************)
(* Transaction-safety heuristics of the wallet UI: address-poisoning       *)
(* detection (two modules with the same public names), the confirmation    *)
(* hook that caches its alert, the domain typosquatting / drop-catching    *)
(* checks and the asynchronous domain lookup thunk of the DNS slice.       *)
(*                                                                         *)
(* JavaScript strings are sequences of one-character strings; `undefined`  *)
(* and `null` are the one-element sequences UNDEFINED and NULLV, which no  *)
(* string of single characters equals.                                     *)
(***************************************************************************)
EXTENDS Integers, Sequences, FiniteSets, TLC

VARIABLES
    ap,         \* SpecAP: the arguments and results of an address-poisoning call
    hook,       \* SpecHook: the props, refs and result of useAddressPoisoningAlert
    dom,        \* SpecDom: the arguments and result of a domain check
    slice,      \* SpecLookup: the DNS slice of the store
    runs,       \* SpecLookup: the lookupDomainName runs, in start order
    saves,      \* SpecLookup: the saveDomainResolution runs, in start order
    ledger,     \* SpecLookup: the resolvedDomains object in extension storage
    currentChainId,             \* SpecLookup: the chain the network selector reports
    useAddressPoisoningDetect,  \* SpecLookup: the enablement flag of the preferences
    sim         \* SpecSim: the arguments and results of an areAddressesSimilar call

vars ==
    <<ap, hook, dom, slice, runs, saves, ledger, currentChainId,
      useAddressPoisoningDetect, sim>>

----------------------------------------------------------------------------
(* JavaScript values and string primitives *)

UNDEFINED == <<"undefined">>
NULLV == <<"null">>

\* A function result of `null` (records are used for every returned object).
Null == [isNull |-> TRUE]

Min(a, b) == IF a < b THEN a ELSE b
Max(a, b) == IF a > b THEN a ELSE b

\* `!!s` for a string-or-undefined value.
Truthy(s) == s # UNDEFINED /\ s # NULLV /\ s # <<>>

UpperChars ==
    <<"A", "B", "C", "D", "E", "F", "G", "H", "I", "J", "K", "L", "M",
      "N", "O", "P", "Q", "R", "S", "T", "U", "V", "W", "X", "Y", "Z">>
LowerChars ==
    <<"a", "b", "c", "d", "e", "f", "g", "h", "i", "j", "k", "l", "m",
      "n", "o", "p", "q", "r", "s", "t", "u", "v", "w", "x", "y", "z">>

\* The case mappings of the ASCII letters; every other character is unchanged.
LowerOf ==
    [c \in {UpperChars[i] : i \in 1..Len(UpperChars)} |->
        LowerChars[CHOOSE i \in 1..Len(UpperChars) : UpperChars[i] = c]]
UpperOf ==
    [c \in {LowerChars[i] : i \in 1..Len(LowerChars)} |->
        UpperChars[CHOOSE i \in 1..Len(LowerChars) : LowerChars[i] = c]]

toLowerCaseChar(c) == IF c \in DOMAIN LowerOf THEN LowerOf[c] ELSE c

toUpperCaseChar(c) == IF c \in DOMAIN UpperOf THEN UpperOf[c] ELSE c

\* String.prototype.toLowerCase
toLowerCase(s) == [i \in 1..Len(s) |-> toLowerCaseChar(s[i])]

\* String.prototype.toUpperCase
toUpperCase(s) == [i \in 1..Len(s) |-> toUpperCaseChar(s[i])]

\* `x?.toLowerCase()`
optLowerCase(s) == IF s = UNDEFINED THEN UNDEFINED ELSE toLowerCase(s)

\* String.prototype.slice(start, end): negative indices count from the end,
\* both are clamped to the string.
slice2(s, start, end) ==
    LET n == Len(s)
        from == IF start < 0 THEN Max(n + start, 0) ELSE Min(start, n)
        to == IF end < 0 THEN Max(n + end, 0) ELSE Min(end, n)
    IN IF from < to THEN SubSeq(s, from + 1, to) ELSE <<>>

\* String.prototype.slice(start)
slice1(s, start) == slice2(s, start, Len(s))

\* Array.prototype.includes / Set.prototype.has on a sequence of strings.
includes(arr, x) == \E i \in 1..Len(arr) : arr[i] = x

\* Mutant: a new element goes to the front of the iteration order.
setAdd_prepend(set, x) == IF includes(set, x) THEN set ELSE <<x>> \o set

\* Set.prototype.add on an insertion-ordered set of strings.
setAdd(set, x) == IF includes(set, x) THEN set ELSE Append(set, x)

\* All sequences over S of length 0..n.
SeqsUpTo(S, n) == UNION {[1..k -> S] : k \in 0..n}

----------------------------------------------------------------------------
(* Address poisoning, gated module (src/unnamed/part_000) *)

countMatchingChars(str1, str2) ==
    LET minLen == Min(Len(str1), Len(str2))
    IN Cardinality({i \in 1..minLen : str1[i] = str2[i]})

getPrefixMatchingChars(address1, address2, prefixLength) ==
    countMatchingChars(slice2(address1, 2, prefixLength),
                       slice2(address2, 2, prefixLength))

getSuffixMatchingChars(address1, address2, suffixLength) ==
    countMatchingChars(slice1(address1, -suffixLength),
                       slice1(address2, -suffixLength))

areAddressesSimilar_gated(address1, address2) ==
    IF ~Truthy(address1) \/ ~Truthy(address2) THEN FALSE
    ELSE LET addr1 == toLowerCase(address1)
             addr2 == toLowerCase(address2)
             prefixMatchCount == getPrefixMatchingChars(addr1, addr2, 10)
             suffixMatchCount == getSuffixMatchingChars(addr1, addr2, 10)
             prefix5 == slice2(addr1, 0, 5) = slice2(addr2, 0, 5)
             suffix5 == slice1(addr1, -5) = slice1(addr2, -5)
         IN IF addr1 = addr2 THEN FALSE
            ELSE IF prefix5 /\ suffix5 THEN TRUE
            ELSE prefixMatchCount + suffixMatchCount >= 6

\* internalAccounts.map((account) => account.address.toLowerCase())
ownAddresses(internalAccounts) ==
    [i \in 1..Len(internalAccounts) |-> toLowerCase(internalAccounts[i].address)]

\* Mutant: the own-address test forgets to case-fold the recipient.
isOwnAddress_caseSensitive(own, recipientAddress) ==
    includes(own, recipientAddress)

\* The own-address test of performDetection.
isOwnAddress(own, recipientAddress) ==
    includes(own, toLowerCase(recipientAddress))

\* Mutant: the pass does not look at the transaction status.
txCounts_anyStatus(tx) == tx.hasTxParams

\* Whether the gated pass looks at a transaction at all.
txCounts_gated(tx) == tx.hasTxParams /\ tx.status = "confirmed"

RECURSIVE addressesSentTo_gated(_, _)
addressesSentTo_gated(transactions, own) ==
    IF transactions = <<>> THEN <<>>
    ELSE LET n == Len(transactions)
             tx == transactions[n]
             before == addressesSentTo_gated(SubSeq(transactions, 1, n - 1), own)
             fromLower == optLowerCase(tx.from)
             toLower == optLowerCase(tx.to)
         IN IF txCounts_gated(tx) /\ Truthy(fromLower)
               /\ includes(own, fromLower) /\ Truthy(toLower)
            THEN setAdd(before, toLower)
            ELSE before

RECURSIVE addressesReceivedFrom_gated(_, _)
addressesReceivedFrom_gated(transactions, own) ==
    IF transactions = <<>> THEN <<>>
    ELSE LET n == Len(transactions)
             tx == transactions[n]
             before == addressesReceivedFrom_gated(SubSeq(transactions, 1, n - 1), own)
             fromLower == optLowerCase(tx.from)
             toLower == optLowerCase(tx.to)
         IN IF txCounts_gated(tx) /\ Truthy(toLower)
               /\ includes(own, toLower) /\ Truthy(fromLower)
            THEN setAdd(before, fromLower)
            ELSE before

\* Mutant: STEP 2 is skipped.
hasSentToRecipient_skipped(sentTo, recipientLower) == FALSE

\* STEP 2 of the gated policy: the user has sent to this address before.
hasSentToRecipient(sentTo, recipientLower) == includes(sentTo, recipientLower)

\* Mutant: STEP 3 is not required.
hasReceivedFromRecipient_notRequired(receivedFrom, recipientLower) == TRUE

\* STEP 3 of the gated policy: the recipient has sent funds to the user.
hasReceivedFromRecipient(receivedFrom, recipientLower) ==
    includes(receivedFrom, recipientLower)

\* STEP 4: indices of the sent-to addresses similar to the recipient.
similarIndices_gated(recipientLower, sentTo) ==
    {i \in 1..Len(sentTo) : areAddressesSimilar_gated(recipientLower, sentTo[i])}

\* The warning object of the gated module; the message template is kept as
\* its four interpolated pieces.
warning_gated(recipientAddress, similarAddressFound) ==
    [isNull |-> FALSE,
     warning |-> TRUE,
     message |-> <<slice2(recipientAddress, 0, 8), slice1(recipientAddress, -6),
                   slice2(similarAddressFound, 0, 8), slice1(similarAddressFound, -6)>>,
     similarAddressFound |-> similarAddressFound,
     details |-> [recipientAddress |-> recipientAddress, txValue |-> "Unknown"],
     severity |-> "high"]

performDetection_gated(recipientAddress, transactions, internalAccounts) ==
    IF ~Truthy(recipientAddress) THEN Null
    ELSE LET recipientLower == toLowerCase(recipientAddress)
             own == ownAddresses(internalAccounts)
             sentTo == addressesSentTo_gated(transactions, own)
             receivedFrom == addressesReceivedFrom_gated(transactions, own)
             similar == similarIndices_gated(recipientLower, sentTo)
         IN IF isOwnAddress(own, recipientAddress) THEN Null
            ELSE IF hasSentToRecipient(sentTo, recipientLower) THEN Null
            ELSE IF ~hasReceivedFromRecipient(receivedFrom, recipientLower) THEN Null
            ELSE IF similar # {}
                 THEN warning_gated(recipientAddress,
                                    sentTo[CHOOSE i \in similar : \A j \in similar : i <= j])
                 ELSE Null

----------------------------------------------------------------------------
(* Address poisoning, module exported by address-poisoning/index.ts
   (src/ui/ducks/address-poisoning/detection.ts) *)

\* One row of the Levenshtein matrix, built left to right from the row above.
RECURSIVE levenshteinRow(_, _, _, _)
levenshteinRow(prev, c, str2, cur) ==
    IF Len(cur) = Len(str2) + 1 THEN cur
    ELSE LET j == Len(cur)
             cell == IF c = str2[j] THEN prev[j]
                     ELSE Min(prev[j] + 1, Min(cur[j] + 1, prev[j + 1] + 1))
         IN levenshteinRow(prev, c, str2, Append(cur, cell))

\* The matrix, row by row: matrix[i + 1] is the code's matrix[i].
RECURSIVE levenshteinRows(_, _, _)
levenshteinRows(str1, str2, matrix) ==
    IF Len(matrix) = Len(str1) + 1 THEN matrix
    ELSE LET i == Len(matrix)
         IN levenshteinRows(str1, str2,
                Append(matrix, levenshteinRow(matrix[i], str1[i], str2, <<i>>)))

levenshteinDistance(str1, str2) ==
    levenshteinRows(str1, str2,
        <<[j \in 1..(Len(str2) + 1) |-> j - 1]>>)[Len(str1) + 1][Len(str2) + 1]

\* calculateSimilarity(str1, str2) >= pct / 100, i.e.
\* 1 - distance / maxLength >= pct / 100, in exact arithmetic.
similarityAtLeast(str1, str2, pct) ==
    LET distance == levenshteinDistance(str1, str2)
        maxLength == Max(Len(str1), Len(str2))
    IN 100 * (maxLength - distance) >= pct * maxLength

\* (similarity * 100).toFixed(1) in tenths of a percent: the nearest tenth,
\* the larger one on a tie.
similarityTenths(str1, str2) ==
    LET distance == levenshteinDistance(str1, str2)
        maxLength == Max(Len(str1), Len(str2))
    IN (2000 * (maxLength - distance) + maxLength) \div (2 * maxLength)

prefixSuffixTests ==
    <<[prefix |-> 6, suffix |-> 4], [prefix |-> 8, suffix |-> 6],
      [prefix |-> 10, suffix |-> 4], [prefix |-> 6, suffix |-> 6]>>

windowMatches(addr1, addr2, test) ==
    /\ slice2(addr1, 0, test.prefix) = slice2(addr2, 0, test.prefix)
    /\ slice1(addr1, -test.suffix) = slice1(addr2, -test.suffix)
    /\ slice2(addr1, test.prefix, -test.suffix) # slice2(addr2, test.prefix, -test.suffix)

\* The method tags: `prefix(N)+suffix(M)` is <<"prefix+suffix", N, M>>, a ratio
\* tag such as `high-similarity(86.4%)` is <<"high-similarity", 864>>, and
\* `method: null` is NULLV.
windowMethod(test) == <<"prefix+suffix", test.prefix, test.suffix>>

ratioMethod_wholeString(name, addr1, addr2, part1, part2) ==
    <<name, similarityTenths(addr1, addr2)>>

ratioMethod(name, addr1, addr2, part1, part2) ==
    <<name, similarityTenths(part1, part2)>>

notSimilar == [isSimilar |-> FALSE, method |-> NULLV]

\* The rules after the guards, on the lowercased addresses.
classify_prefixFirst(addr1, addr2) ==
    LET hits == {k \in 1..Len(prefixSuffixTests) :
                    windowMatches(addr1, addr2, prefixSuffixTests[k])}
        prefix1 == slice2(addr1, 0, 12)
        prefix2 == slice2(addr2, 0, 12)
        suffix1 == slice1(addr1, -10)
        suffix2 == slice1(addr2, -10)
    IN IF hits # {}
       THEN [isSimilar |-> TRUE,
             method |-> windowMethod(
                 prefixSuffixTests[CHOOSE k \in hits : \A m \in hits : k <= m])]
       ELSE IF similarityAtLeast(prefix1, prefix2, 80)
            THEN [isSimilar |-> TRUE,
                  method |-> ratioMethod("prefix-similarity", addr1, addr2, prefix1, prefix2)]
       ELSE IF similarityAtLeast(addr1, addr2, 85)
            THEN [isSimilar |-> TRUE,
                  method |-> ratioMethod("high-similarity", addr1, addr2, addr1, addr2)]
       ELSE IF similarityAtLeast(suffix1, suffix2, 80)
            THEN [isSimilar |-> TRUE,
                  method |-> ratioMethod("suffix-similarity", addr1, addr2, suffix1, suffix2)]
       ELSE notSimilar

classify(addr1, addr2) ==
    LET hits == {k \in 1..Len(prefixSuffixTests) :
                    windowMatches(addr1, addr2, prefixSuffixTests[k])}
        prefix1 == slice2(addr1, 0, 12)
        prefix2 == slice2(addr2, 0, 12)
        suffix1 == slice1(addr1, -10)
        suffix2 == slice1(addr2, -10)
    IN IF hits # {}
       THEN [isSimilar |-> TRUE,
             method |-> windowMethod(
                 prefixSuffixTests[CHOOSE k \in hits : \A m \in hits : k <= m])]
       ELSE IF similarityAtLeast(addr1, addr2, 85)
            THEN [isSimilar |-> TRUE,
                  method |-> ratioMethod("high-similarity", addr1, addr2, addr1, addr2)]
       ELSE IF similarityAtLeast(prefix1, prefix2, 80)
            THEN [isSimilar |-> TRUE,
                  method |-> ratioMethod("prefix-similarity", addr1, addr2, prefix1, prefix2)]
       ELSE IF similarityAtLeast(suffix1, suffix2, 80)
            THEN [isSimilar |-> TRUE,
                  method |-> ratioMethod("suffix-similarity", addr1, addr2, suffix1, suffix2)]
       ELSE notSimilar

\* `addr1 === addr2` on the lowercased addresses.
sameAddress_exactCase(address1, address2, addr1, addr2) == address1 = address2

sameAddress(address1, address2, addr1, addr2) == addr1 = addr2

\* The addresses the rules are applied to.
comparedForm_asGiven(address) == address

comparedForm(address) == toLowerCase(address)

areAddressesSimilar_det(address1, address2) ==
    IF ~Truthy(address1) \/ ~Truthy(address2) THEN notSimilar
    ELSE LET addr1 == comparedForm(address1)
             addr2 == comparedForm(address2)
         IN IF sameAddress(address1, address2, addr1, addr2) THEN notSimilar
            ELSE classify(addr1, addr2)

\* The addresses collected from the history, in encounter order; this pass
\* does not look at the transaction status.
RECURSIVE addressesToCheck_det(_, _)
addressesToCheck_det(transactions, own) ==
    IF transactions = <<>> THEN <<>>
    ELSE LET n == Len(transactions)
             tx == transactions[n]
             before == addressesToCheck_det(SubSeq(transactions, 1, n - 1), own)
             fromLower == optLowerCase(tx.from)
             toLower == optLowerCase(tx.to)
             fromOrEmpty == IF Truthy(fromLower) THEN fromLower ELSE <<>>
             toOrEmpty == IF Truthy(toLower) THEN toLower ELSE <<>>
             outgoing == IF includes(own, fromOrEmpty) /\ Truthy(toLower)
                         THEN <<[address |-> toLower, type |-> "outgoing"]>>
                         ELSE <<>>
             incoming == IF includes(own, toOrEmpty) /\ Truthy(fromLower)
                         THEN <<[address |-> fromLower, type |-> "incoming"]>>
                         ELSE <<>>
         IN IF ~tx.hasTxParams THEN before
            ELSE before \o outgoing \o incoming

\* The similar addresses the pass finds; they are logged, never returned.
similarAddresses_det(recipientAddress, transactions, internalAccounts) ==
    SelectSeq(addressesToCheck_det(transactions, ownAddresses(internalAccounts)),
              LAMBDA a : areAddressesSimilar_det(recipientAddress, a.address).isSimilar)

\* Every path of this performDetection ends in `return null`.
performDetection_det(recipientAddress, transactions, internalAccounts) ==
    IF ~Truthy(recipientAddress) THEN Null
    ELSE IF isOwnAddress(ownAddresses(internalAccounts), recipientAddress) THEN Null
    ELSE Null

----------------------------------------------------------------------------
(* Entry points, identical in both modules *)

\* state.metamask.useAddressPoisoningDetect ?? true, the flag being one of
\* "true", "false", "undefined".
getAddressPoisoningDetectionEnabled(flag) == flag # "false"

checkForAddressPoisoning_gated(recipientAddress, detectionEnabled, transactions, internalAccounts) ==
    IF ~detectionEnabled THEN Null
    ELSE performDetection_gated(recipientAddress, transactions, internalAccounts)

checkForAddressPoisoning_det(recipientAddress, detectionEnabled, transactions, internalAccounts) ==
    IF ~detectionEnabled THEN Null
    ELSE performDetection_det(recipientAddress, transactions, internalAccounts)

checkForAddressPoisoningWithState_gated(recipientAddress, flag, transactions, internalAccounts) ==
    IF ~getAddressPoisoningDetectionEnabled(flag) THEN Null
    ELSE IF ~Truthy(recipientAddress) THEN Null
    ELSE performDetection_gated(recipientAddress, transactions, internalAccounts)

checkForAddressPoisoningWithState_det(recipientAddress, flag, transactions, internalAccounts) ==
    IF ~getAddressPoisoningDetectionEnabled(flag) THEN Null
    ELSE IF ~Truthy(recipientAddress) THEN Null
    ELSE performDetection_det(recipientAddress, transactions, internalAccounts)

----------------------------------------------------------------------------
(* Inputs of the address-poisoning checks *)

OWNER ==
    <<"0", "x", "O", "W", "N", "E", "R">>
ADDR_SENT ==
    <<"0", "x", "A", "A", "A", "A", "1", "1", "1", "1", "2", "2", "2", "2",
      "3", "3", "3", "3", "4", "4", "4", "4", "5", "5", "5", "5", "6", "6",
      "6", "6", "7", "7", "7", "7", "8", "8", "8", "8", "9", "9", "9", "9">>
ADDR_LOOKALIKE ==
    <<"0", "x", "A", "A", "A", "A", "1", "1", "1", "1", "2", "2", "2", "2",
      "3", "3", "3", "3", "4", "4", "4", "4", "5", "5", "5", "5", "6", "6",
      "6", "6", "7", "7", "7", "7", "8", "8", "8", "8", "0", "0", "0", "0">>

MaxTx == 3

Tx(status, from, to) ==
    [status |-> status, hasTxParams |-> TRUE, from |-> from, to |-> to]

TxNoParams ==
    [status |-> "confirmed", hasTxParams |-> FALSE, from |-> UNDEFINED, to |-> UNDEFINED]

TxPool ==
    {Tx("confirmed", OWNER, ADDR_SENT), Tx("confirmed", OWNER, ADDR_LOOKALIKE),
     Tx("confirmed", ADDR_LOOKALIKE, OWNER), Tx("confirmed", ADDR_SENT, ADDR_LOOKALIKE),
     Tx("submitted", OWNER, ADDR_LOOKALIKE), Tx("submitted", ADDR_LOOKALIKE, OWNER),
     Tx("confirmed", OWNER, UNDEFINED), TxNoParams}

RecipientPool ==
    {<<>>, OWNER, ADDR_SENT, ADDR_LOOKALIKE, toLowerCase(ADDR_LOOKALIKE)}

Account(address) == [address |-> address]

AccountLists ==
    {<<>>, <<Account(OWNER)>>, <<Account(OWNER), Account(ADDR_LOOKALIKE)>>}

FlagPool == {"true", "false", "undefined"}

----------------------------------------------------------------------------
(* Specification SpecAP: one call of an address-poisoning entry point.
   The initial state holds the arguments; the call stores what each of the
   two modules returns. *)

Idle == "idle"

ApInputs ==
    [recipientAddress : RecipientPool,
     flag : FlagPool,
     transactions : SeqsUpTo(TxPool, MaxTx),
     internalAccounts : AccountLists]

InitAP ==
    /\ \E in \in ApInputs :
          ap = [recipientAddress |-> in.recipientAddress,
                flag |-> in.flag,
                transactions |-> in.transactions,
                internalAccounts |-> in.internalAccounts,
                entry |-> "none", gated |-> Null, det |-> Null]
    /\ hook = Idle /\ dom = Idle /\ slice = Idle /\ runs = Idle /\ saves = Idle
    /\ ledger = Idle /\ currentChainId = Idle /\ useAddressPoisoningDetect = Idle
    /\ sim = Idle

\* checkForAddressPoisoning(recipientAddress, detectionEnabled, transactions,
\* internalAccounts): the flag is passed as a boolean.
CallCheckForAddressPoisoning ==
    /\ ap.entry = "none"
    /\ ap.flag # "undefined"
    /\ ap' = [ap EXCEPT
                !.entry = "checkForAddressPoisoning",
                !.gated = checkForAddressPoisoning_gated(
                              ap.recipientAddress, ap.flag = "true",
                              ap.transactions, ap.internalAccounts),
                !.det = checkForAddressPoisoning_det(
                              ap.recipientAddress, ap.flag = "true",
                              ap.transactions, ap.internalAccounts)]
    /\ UNCHANGED <<hook, dom, slice, runs, saves, ledger, currentChainId,
                   useAddressPoisoningDetect, sim>>

\* checkForAddressPoisoningWithState(recipientAddress, state): flag,
\* transactions and accounts are read from the state snapshot.
CallCheckForAddressPoisoningWithState ==
    /\ ap.entry = "none"
    /\ ap' = [ap EXCEPT
                !.entry = "checkForAddressPoisoningWithState",
                !.gated = checkForAddressPoisoningWithState_gated(
                              ap.recipientAddress, ap.flag,
                              ap.transactions, ap.internalAccounts),
                !.det = checkForAddressPoisoningWithState_det(
                              ap.recipientAddress, ap.flag,
                              ap.transactions, ap.internalAccounts)]
    /\ UNCHANGED <<hook, dom, slice, runs, saves, ledger, currentChainId,
                   useAddressPoisoningDetect, sim>>

NextAP == CallCheckForAddressPoisoning \/ CallCheckForAddressPoisoningWithState

SpecAP == InitAP /\ [][NextAP]_vars

\* The detection ran: the call returned and the flag did not switch it off.
ApRan == ap.entry # "none" /\ getAddressPoisoningDetectionEnabled(ap.flag)

ApOwn == ownAddresses(ap.internalAccounts)

\* Some confirmed transaction goes from `from` (case-folded) to an owned address.
ConfirmedInboundFrom(addrLower) ==
    \E i \in 1..Len(ap.transactions) :
        LET tx == ap.transactions[i]
        IN /\ tx.hasTxParams /\ tx.status = "confirmed"
           /\ tx.from # UNDEFINED /\ toLowerCase(tx.from) = addrLower
           /\ tx.to # UNDEFINED /\ includes(ApOwn, toLowerCase(tx.to))

\* Some confirmed transaction goes from an owned address to `to` (case-folded).
ConfirmedOutboundTo(addrLower) ==
    \E i \in 1..Len(ap.transactions) :
        LET tx == ap.transactions[i]
        IN /\ tx.hasTxParams /\ tx.status = "confirmed"
           /\ tx.to # UNDEFINED /\ toLowerCase(tx.to) = addrLower
           /\ tx.from # UNDEFINED /\ includes(ApOwn, toLowerCase(tx.from))

\* C1: inbound-history gate. Whenever no confirmed transaction has the
\* case-folded recipient as `from` and an owned address as `to`, both
\* modules return null, also when the recipient is similar to a sent-to address.
C1_InboundHistoryGate ==
    (ap.entry # "none" /\ ~ConfirmedInboundFrom(toLowerCase(ap.recipientAddress)))
        => (ap.gated = Null /\ ap.det = Null)

\* The gate decided: the detection ran on a recipient that is not owned, was
\* never sent to, is similar to a sent-to address, and never sent to the owner.
C1_Witness ==
    /\ ApRan
    /\ Truthy(ap.recipientAddress)
    /\ ~includes(ApOwn, toLowerCase(ap.recipientAddress))
    /\ ~ConfirmedInboundFrom(toLowerCase(ap.recipientAddress))
    /\ ~ConfirmedOutboundTo(toLowerCase(ap.recipientAddress))
    /\ \E i \in 1..Len(ap.transactions) :
          /\ ap.transactions[i].to # UNDEFINED
          /\ ConfirmedOutboundTo(toLowerCase(ap.transactions[i].to))
          /\ areAddressesSimilar_gated(ap.recipientAddress, ap.transactions[i].to)
    /\ ap.gated = Null

\* Some address the owner has sent to (confirmed) is similar to the recipient.
SimilarToSentTo ==
    \E i \in 1..Len(ap.transactions) :
        /\ ap.transactions[i].hasTxParams
        /\ ap.transactions[i].to # UNDEFINED
        /\ ConfirmedOutboundTo(toLowerCase(ap.transactions[i].to))
        /\ areAddressesSimilar_gated(ap.recipientAddress, ap.transactions[i].to)

\* C2: no self-flag. Whenever the recipient, compared case-insensitively,
\* equals an owned address, both modules return null, whatever the history.
C2_NoSelfFlag ==
    (ap.entry # "none" /\ includes(ApOwn, toLowerCase(ap.recipientAddress)))
        => (ap.gated = Null /\ ap.det = Null)

\* An owned recipient that every later step would have flagged: it sent to
\* the owner, was never sent to, and resembles a sent-to address; its
\* spelling differs from the stored account address only in letter case.
C2_Witness ==
    /\ ApRan
    /\ includes(ApOwn, toLowerCase(ap.recipientAddress))
    /\ ap.recipientAddress # toLowerCase(ap.recipientAddress)
    /\ ConfirmedInboundFrom(toLowerCase(ap.recipientAddress))
    /\ ~ConfirmedOutboundTo(toLowerCase(ap.recipientAddress))
    /\ SimilarToSentTo
    /\ ap.gated = Null

\* The end-to-end scenario: owner 0xOWNER, confirmed 0xOWNER -> ...9999 and
\* ...0000 -> 0xOWNER, recipient ...0000, detection enabled, explicit entry.
C3_Scenario ==
    /\ ap.entry = "checkForAddressPoisoning"
    /\ ap.flag = "true"
    /\ ap.recipientAddress = ADDR_LOOKALIKE
    /\ ap.internalAccounts = <<Account(OWNER)>>
    /\ ap.transactions = <<Tx("confirmed", OWNER, ADDR_SENT),
                           Tx("confirmed", ADDR_LOOKALIKE, OWNER)>>

\* C3: in the scenario, checkForAddressPoisoning as exported by
\* address-poisoning/index.ts returns a non-null warning whose
\* details.recipientAddress is the recipient and whose message references
\* the similar sent-to address.
C3_PositiveScenario ==
    C3_Scenario =>
        /\ ~ap.det.isNull
        /\ ap.det.details.recipientAddress = ADDR_LOOKALIKE
        /\ \E k \in 1..Len(ap.det.message) :
              ap.det.message[k] = slice2(toLowerCase(ADDR_SENT), 0, 8)

\* C10: established trust. Whenever the case-folded recipient is the `to` of
\* a confirmed transaction sent from an owned address, both modules return
\* null, whatever else the history holds.
C10_EstablishedTrust ==
    (ap.entry # "none" /\ ConfirmedOutboundTo(toLowerCase(ap.recipientAddress)))
        => (ap.gated = Null /\ ap.det = Null)

\* A trusted recipient that the later steps would have flagged: not owned,
\* sent to before, has sent to the owner, and resembles another sent-to address.
C10_Witness ==
    /\ ApRan
    /\ ~includes(ApOwn, toLowerCase(ap.recipientAddress))
    /\ ConfirmedOutboundTo(toLowerCase(ap.recipientAddress))
    /\ ConfirmedInboundFrom(toLowerCase(ap.recipientAddress))
    /\ SimilarToSentTo
    /\ ap.gated = Null

----------------------------------------------------------------------------
(* Specification SpecSim: one call of areAddressesSimilar of either module.
   The initial state holds the two arguments. *)

\* The number of places in which an input address differs from SIM_BASE.
MaxMutations == 2

SIM_BASE ==
    <<"0", "x", "1", "2", "3", "4", "5", "6", "7", "8", "9", "0",
      "a", "b", "c", "d", "e", "f", "1", "1", "1", "1">>
SIM_TAIL_2222 ==
    <<"0", "x", "1", "2", "3", "4", "5", "6", "7", "8", "9", "0",
      "a", "b", "c", "d", "e", "f", "2", "2", "2", "2">>

\* The places that are changed: in the first 6, 8 and 10 characters, in the
\* middle, and in the last 6 and 4 characters.
SimPositions == {3, 7, 9, 13, 14, 17, 19, 22}

Mutate(address, positions) ==
    [i \in 1..Len(address) |-> IF i \in positions THEN "F" ELSE address[i]]

SimMutants ==
    {Mutate(SIM_BASE, ps) : ps \in {qs \in SUBSET SimPositions : Cardinality(qs) <= MaxMutations}}

\* Addresses of other lengths and letter cases.
SimOthers ==
    {<<>>, UNDEFINED,
     SubSeq(SIM_BASE, 1, 4), SubSeq(SIM_BASE, 1, 9), SubSeq(SIM_BASE, 1, 12),
     SubSeq(SIM_BASE, 1, 9) \o SubSeq(SIM_BASE, 11, 22),
     SIM_BASE \o <<"1">>,
     SIM_TAIL_2222, toUpperCase(SIM_TAIL_2222),
     toUpperCase(SIM_BASE), Mutate(SIM_BASE, {13, 15}),
     toLowerCase(Mutate(SIM_BASE, {13, 15})),
     <<"a", "b", "c", "d", "e", "f", "g">>,
     <<"a", "b", "c", "d", "e", "f", "d", "e", "f", "g">>}

SimPool == SimMutants \cup SimOthers

InitSim ==
    /\ \E address1 \in SimPool, address2 \in SimPool :
          sim = [address1 |-> address1, address2 |-> address2,
                 module |-> "none", isSimilar |-> FALSE, method |-> NULLV]
    /\ ap = Idle /\ hook = Idle /\ dom = Idle /\ slice = Idle /\ runs = Idle
    /\ saves = Idle /\ ledger = Idle /\ currentChainId = Idle
    /\ useAddressPoisoningDetect = Idle

\* areAddressesSimilar of detection.ts returns { isSimilar, method }.
CallAreAddressesSimilarDetection ==
    /\ sim.module = "none"
    /\ LET result == areAddressesSimilar_det(sim.address1, sim.address2)
       IN sim' = [sim EXCEPT !.module = "detection",
                             !.isSimilar = result.isSimilar,
                             !.method = result.method]
    /\ UNCHANGED <<ap, hook, dom, slice, runs, saves, ledger, currentChainId,
                   useAddressPoisoningDetect>>

\* areAddressesSimilar of the gated module returns a boolean.
CallAreAddressesSimilarGated ==
    /\ sim.module = "none"
    /\ sim' = [sim EXCEPT !.module = "gated",
                          !.isSimilar = areAddressesSimilar_gated(sim.address1, sim.address2)]
    /\ UNCHANGED <<ap, hook, dom, slice, runs, saves, ledger, currentChainId,
                   useAddressPoisoningDetect>>

NextSim == CallAreAddressesSimilarDetection \/ CallAreAddressesSimilarGated

SpecSim == InitSim /\ [][NextSim]_vars

\* The two arguments are strings, neither of them empty.
SimNonEmpty == Truthy(sim.address1) /\ Truthy(sim.address2)

SimCaseVariants == toLowerCase(sim.address1) = toLowerCase(sim.address2)

\* C11: self-equality. Two non-empty addresses that are equal up to letter
\* case are reported not similar by areAddressesSimilar of both modules
\* (isSimilar false and method null in detection.ts, false in the gated one).
C11_SelfEquality ==
    (sim.module # "none" /\ SimNonEmpty /\ SimCaseVariants)
        => (~sim.isSimilar /\ sim.method = NULLV)

\* A call of detection.ts on two different spellings of one address.
C11_Witness ==
    /\ sim.module = "detection"
    /\ SimNonEmpty /\ SimCaseVariants
    /\ sim.address1 # sim.address2
    /\ ~sim.isSimilar

\* C12: case invariance. In detection.ts areAddressesSimilar(x, y) and
\* areAddressesSimilar(upper(x), lower(y)) return the same isSimilar and the
\* same method tag, for all strings x and y.
C12_CaseInvariance ==
    (sim.module = "detection" /\ sim.address1 # UNDEFINED /\ sim.address2 # UNDEFINED)
        => [isSimilar |-> sim.isSimilar, method |-> sim.method]
             = areAddressesSimilar_det(toUpperCase(sim.address1),
                                       toLowerCase(sim.address2))

\* A positive result on arguments that both change under the case mappings.
C12_Witness ==
    /\ sim.module = "detection"
    /\ SimNonEmpty
    /\ sim.address1 # toUpperCase(sim.address1)
    /\ sim.address2 # toLowerCase(sim.address2)
    /\ sim.isSimilar

\* areAddressesSimilar("0x1234567890abcdef1111", "0x1234567890abcdef2222")
\* of detection.ts has returned.
C13_Scenario ==
    /\ sim.module = "detection"
    /\ sim.address1 = SIM_BASE
    /\ sim.address2 = SIM_TAIL_2222

\* C13 as stated: the example returns isSimilar true with a method tag
\* containing "prefix(10)", i.e. the tag prefix(10)+suffix(4).
C13_WindowedExample ==
    C13_Scenario
        => (sim.isSimilar /\ sim.method[1] = "prefix+suffix" /\ sim.method[2] = 10)

\* C13, amended: the example returns isSimilar true with the method tag
\* prefix-similarity(100.0%); no exact window matches because the last four
\* characters differ.
C13_PrefixSimilarityExample ==
    C13_Scenario
        => (sim.isSimilar /\ sim.method = <<"prefix-similarity", 1000>>)

C13_Witness == C13_Scenario /\ sim.isSimilar

\* The rules of the classification, stated on the lowercased addresses by
\* position: rules 1..4 are the exact windows, 5..7 the ratio rules.
RulePrefix(s, n) == SubSeq(s, 1, Min(n, Len(s)))

RuleSuffix(s, n) == SubSeq(s, Max(Len(s) - n, 0) + 1, Len(s))

RuleMiddle(s, n, m) ==
    IF Min(n, Len(s)) < Len(s) - m THEN SubSeq(s, Min(n, Len(s)) + 1, Len(s) - m)
    ELSE <<>>

RuleWindow(a, b, n, m) ==
    /\ RulePrefix(a, n) = RulePrefix(b, n)
    /\ RuleSuffix(a, m) = RuleSuffix(b, m)
    /\ RuleMiddle(a, n, m) # RuleMiddle(b, n, m)

\* 1 - levenshtein / max length >= 1 - num / den
RuleRatio(a, b, num, den) ==
    den * levenshteinDistance(a, b) <= num * Max(Len(a), Len(b))

RuleHolds(k, a, b) ==
    CASE k = 1 -> RuleWindow(a, b, 6, 4)
      [] k = 2 -> RuleWindow(a, b, 8, 6)
      [] k = 3 -> RuleWindow(a, b, 10, 4)
      [] k = 4 -> RuleWindow(a, b, 6, 6)
      [] k = 5 -> RuleRatio(a, b, 15, 100)
      [] k = 6 -> RuleRatio(RulePrefix(a, 12), RulePrefix(b, 12), 20, 100)
      [] k = 7 -> RuleRatio(RuleSuffix(a, 10), RuleSuffix(b, 10), 20, 100)

RuleTag(k) ==
    CASE k = 1 -> <<"prefix+suffix", 6, 4>>
      [] k = 2 -> <<"prefix+suffix", 8, 6>>
      [] k = 3 -> <<"prefix+suffix", 10, 4>>
      [] k = 4 -> <<"prefix+suffix", 6, 6>>
      [] k = 5 -> <<"high-similarity">>
      [] k = 6 -> <<"prefix-similarity">>
      [] k = 7 -> <<"suffix-similarity">>

RulesHolding(a, b) == {k \in 1..7 : RuleHolds(k, a, b)}

FirstRule(a, b) == CHOOSE k \in RulesHolding(a, b) : \A m \in RulesHolding(a, b) : k <= m

\* The tag without the percentage of the ratio rules.
TagOf(method) == IF method[1] = "prefix+suffix" THEN method ELSE <<method[1]>>

\* C20: rule order of areAddressesSimilar in detection.ts. For non-empty
\* addresses that differ after lowercasing, isSimilar is true iff one of the
\* seven rules holds, and the method is the tag of the first rule that holds
\* in the order (6,4), (8,6), (10,4), (6,6), high-similarity,
\* prefix-similarity, suffix-similarity; it is null when none holds.
C20_RuleOrder ==
    (sim.module = "detection" /\ SimNonEmpty /\ ~SimCaseVariants)
        => LET a == toLowerCase(sim.address1)
               b == toLowerCase(sim.address2)
           IN /\ sim.isSimilar <=> RulesHolding(a, b) # {}
              /\ IF RulesHolding(a, b) = {} THEN sim.method = NULLV
                 ELSE TagOf(sim.method) = RuleTag(FirstRule(a, b))

\* A call in which two ratio rules hold and the earlier one gives the tag.
C20_Witness ==
    /\ sim.module = "detection"
    /\ SimNonEmpty /\ ~SimCaseVariants
    /\ sim.method[1] = "high-similarity"
    /\ RuleHolds(6, toLowerCase(sim.address1), toLowerCase(sim.address2))

----------------------------------------------------------------------------
(* Domain typosquatting / drop-catching checks
   (src/ui/ducks/domains/typosquatting.ts) *)

Whitespace == {" ", "\t", "\n"}

RECURSIVE trimStart(_)
trimStart(s) ==
    IF s # <<>> /\ s[1] \in Whitespace THEN trimStart(Tail(s)) ELSE s

RECURSIVE trimEnd(_)
trimEnd(s) ==
    IF s # <<>> /\ s[Len(s)] \in Whitespace
    THEN trimEnd(SubSeq(s, 1, Len(s) - 1))
    ELSE s

\* String.prototype.trim
trim(s) == trimEnd(trimStart(s))

\* Mutant: no transposition step (plain Levenshtein distance).
transpositionCell_missing(prev2, i, j, str1, str2, cell) == cell

\* The transposition step of the matrix: cell (i, j) may also be reached from
\* cell (i-2, j-2) when the two preceding characters are a swapped pair.
transpositionCell(prev2, i, j, str1, str2, cell) ==
    IF i > 1 /\ j > 1 /\ str1[i] = str2[j - 1] /\ str1[i - 1] = str2[j]
    THEN Min(cell, prev2[j - 1] + 1)
    ELSE cell

\* Row i of the matrix, built left to right from rows i-1 (prev) and i-2
\* (prev2); row sequences are indexed by column + 1.
RECURSIVE damerauRow(_, _, _, _, _, _)
damerauRow(prev2, prev, i, str1, str2, cur) ==
    IF Len(cur) = Len(str2) + 1 THEN cur
    ELSE LET j == Len(cur)
             cost == IF str1[i] = str2[j] THEN 0 ELSE 1
             cell == Min(prev[j + 1] + 1, Min(cur[j] + 1, prev[j] + cost))
         IN damerauRow(prev2, prev, i, str1, str2,
                       Append(cur, transpositionCell(prev2, i, j, str1, str2, cell)))

RECURSIVE damerauRows(_, _, _, _, _)
damerauRows(str1, str2, i, prev2, prev) ==
    IF i > Len(str1) THEN prev
    ELSE damerauRows(str1, str2, i + 1, prev,
                     damerauRow(prev2, prev, i, str1, str2, <<i>>))

damerauLevenshteinDistance(str1, str2) ==
    LET row0 == [j \in 1..(Len(str2) + 1) |-> j - 1]
    IN damerauRows(str1, str2, 1, row0, row0)[Len(str2) + 1]

\* Mutant: only domains of equal length count as one edit apart.
areSimilarDomains_sameLength(domain1, domain2) ==
    LET d1 == trim(toLowerCase(domain1))
        d2 == trim(toLowerCase(domain2))
    IN IF d1 = d2 THEN FALSE
       ELSE Len(d1) = Len(d2) /\ damerauLevenshteinDistance(d1, d2) = 1

areSimilarDomains(domain1, domain2) ==
    LET d1 == trim(toLowerCase(domain1))
        d2 == trim(toLowerCase(domain2))
    IN IF d1 = d2 THEN FALSE
       ELSE damerauLevenshteinDistance(d1, d2) = 1

\* Mutant: the normalized spelling is pushed instead of the candidate itself.
pushedDomain_normalized(knownDomain) == trim(toLowerCase(knownDomain))

\* What findSimilarDomains pushes for a similar candidate.
pushedDomain(knownDomain) == knownDomain

findSimilarDomains(targetDomain, knownDomains) ==
    LET target == trim(toLowerCase(targetDomain))
        keep(knownDomain) ==
            LET known == trim(toLowerCase(knownDomain))
            IN target # known /\ areSimilarDomains(target, known)
        kept == SelectSeq(knownDomains, keep)
    IN [i \in 1..Len(kept) |-> pushedDomain(kept[i])]

\* Object.keys of a ledger object, kept as its ordered list of entries.
objectKeys(resolvedDomains) ==
    [i \in 1..Len(resolvedDomains.entries) |-> resolvedDomains.entries[i].key]

checkForTyposquatting(domain, resolvedDomains) ==
    IF ~Truthy(domain) \/ resolvedDomains.isNull THEN Null
    ELSE LET knownDomains == objectKeys(resolvedDomains)
             similarDomains == findSimilarDomains(domain, knownDomains)
         IN IF Len(knownDomains) = 0 THEN Null
            ELSE IF Len(similarDomains) > 0
                 THEN [isNull |-> FALSE,
                       warning |-> <<"This domain is similar to", similarDomains[1]>>,
                       suggestedDomain |-> similarDomains[1]]
                 ELSE Null

\* Mutant: the addresses are compared as spelled.
resolutionChanged_caseSensitive(currentAddress, previousAddress) ==
    currentAddress # previousAddress

\* The comparison of the two normalized addresses.
resolutionChanged(currentAddress, previousAddress) ==
    toLowerCase(currentAddress) # toLowerCase(previousAddress)

checkForDomainDropCatching(domain, currentAddress, previousAddress) ==
    IF ~Truthy(domain) \/ ~Truthy(currentAddress) \/ ~Truthy(previousAddress)
    THEN Null
    ELSE IF resolutionChanged(currentAddress, previousAddress)
         THEN [isNull |-> FALSE,
               warning |-> <<"The resolved address has changed for", domain>>,
               previousAddress |-> toLowerCase(previousAddress),
               currentAddress |-> toLowerCase(currentAddress)]
         ELSE Null

----------------------------------------------------------------------------
(* Specification SpecDom: one call of a domain check. The initial state
   holds the function and its arguments; the call stores the result. *)

MaxDomainLen == 3
MaxKnown == 2

DomainChars == {"a", "b", "A", " "}

\* Arguments of areSimilarDomains.
DomainPool == SeqsUpTo(DomainChars, MaxDomainLen)

\* Candidate domains and ledger keys.
KnownPool == SeqsUpTo({"a", "b", "A"}, 2) \ {<<>>}

\* Target domains checked against a candidate list.
TargetPool == SeqsUpTo(DomainChars, MaxDomainLen - 1)

ADDR_A == <<"0", "x", "a">>
ADDR_A_UPPER == <<"0", "x", "A">>
ADDR_B == <<"0", "x", "b">>

ResolvedAddressPool == {<<>>, ADDR_A, ADDR_A_UPPER, ADDR_B}

IsInjective(seq) ==
    \A i, j \in 1..Len(seq) : seq[i] = seq[j] => i = j

\* A ledger object with the given keys, in key order.
LedgerWithKeys(keys) ==
    [isNull |-> FALSE,
     entries |-> [i \in 1..Len(keys) |-> [key |-> keys[i], value |-> ADDR_A]]]

LedgerPool ==
    {LedgerWithKeys(keys) : keys \in {k \in SeqsUpTo(KnownPool, MaxKnown) : IsInjective(k)}}
        \cup {Null}

UNISWAP == <<"u", "n", "i", "s", "w", "a", "p", ".", "e", "t", "h">>
UNISWAAP == <<"u", "n", "i", "s", "w", "a", "a", "p", ".", "e", "t", "h">>
UNISWAP2 == <<"u", "n", "i", "s", "w", "a", "p", "2", ".", "e", "t", "h">>
UNISWAP22 == <<"u", "n", "i", "s", "w", "a", "p", "2", "2", ".", "e", "t", "h">>

\* Full-length example names.
ExampleDomains == {UNISWAP, UNISWAAP, UNISWAP2, UNISWAP22}

MaxDistLen == 3

DistChars == {"a", "b", "c"}

\* Arguments of damerauLevenshteinDistance.
DistPool == SeqsUpTo(DistChars, MaxDistLen)

DomCalls ==
    [fn : {"areSimilarDomains"}, domain1 : DomainPool, domain2 : DomainPool]
      \cup [fn : {"damerauLevenshteinDistance"}, str1 : DistPool, str2 : DistPool]
      \cup [fn : {"areSimilarDomains"}, domain1 : ExampleDomains, domain2 : ExampleDomains]
      \cup [fn : {"findSimilarDomains"}, targetDomain : TargetPool,
            knownDomains : SeqsUpTo(KnownPool, MaxKnown)]
      \cup [fn : {"checkForTyposquatting"}, domain : TargetPool,
            resolvedDomains : LedgerPool]
      \cup [fn : {"checkForDomainDropCatching"}, domain : {<<>>, <<"a">>, <<"A", "b">>},
            currentAddress : ResolvedAddressPool,
            previousAddress : ResolvedAddressPool \cup {NULLV}]

InitDom ==
    /\ \E call \in DomCalls : dom = [call |-> call, done |-> FALSE, result |-> Null]
    /\ ap = Idle /\ hook = Idle /\ slice = Idle /\ runs = Idle /\ saves = Idle
    /\ ledger = Idle /\ currentChainId = Idle /\ useAddressPoisoningDetect = Idle
    /\ sim = Idle

Return(result) ==
    /\ dom' = [dom EXCEPT !.done = TRUE, !.result = result]
    /\ UNCHANGED <<ap, hook, slice, runs, saves, ledger, currentChainId,
                   useAddressPoisoningDetect, sim>>

CallAreSimilarDomains ==
    /\ ~dom.done /\ dom.call.fn = "areSimilarDomains"
    /\ Return(areSimilarDomains(dom.call.domain1, dom.call.domain2))

CallFindSimilarDomains ==
    /\ ~dom.done /\ dom.call.fn = "findSimilarDomains"
    /\ Return(findSimilarDomains(dom.call.targetDomain, dom.call.knownDomains))

CallCheckForTyposquatting ==
    /\ ~dom.done /\ dom.call.fn = "checkForTyposquatting"
    /\ Return(checkForTyposquatting(dom.call.domain, dom.call.resolvedDomains))

CallCheckForDomainDropCatching ==
    /\ ~dom.done /\ dom.call.fn = "checkForDomainDropCatching"
    /\ Return(checkForDomainDropCatching(dom.call.domain, dom.call.currentAddress,
                                         dom.call.previousAddress))

CallDamerauLevenshteinDistance ==
    /\ ~dom.done /\ dom.call.fn = "damerauLevenshteinDistance"
    /\ Return(damerauLevenshteinDistance(dom.call.str1, dom.call.str2))

NextDom ==
    \/ CallAreSimilarDomains
    \/ CallDamerauLevenshteinDistance
    \/ CallFindSimilarDomains
    \/ CallCheckForTyposquatting
    \/ CallCheckForDomainDropCatching

SpecDom == InitDom /\ [][NextDom]_vars

Returned(fn) == dom.done /\ dom.call.fn = fn

\* b is a with one character inserted.
IsInsertion(a, b) ==
    /\ Len(b) = Len(a) + 1
    /\ \E k \in 1..Len(b) : a = SubSeq(b, 1, k - 1) \o SubSeq(b, k + 1, Len(b))

\* b is a with one character replaced by a different one.
IsSubstitution(a, b) ==
    /\ Len(a) = Len(b)
    /\ Cardinality({k \in 1..Len(a) : a[k] # b[k]}) = 1

\* b is a with two adjacent, different characters swapped.
IsTransposition(a, b) ==
    /\ Len(a) = Len(b)
    /\ \E k \in 1..(Len(a) - 1) :
          /\ a[k] # a[k + 1]
          /\ b = [m \in 1..Len(a) |->
                    IF m = k THEN a[k + 1] ELSE IF m = k + 1 THEN a[k] ELSE a[m]]

\* Exactly one insertion, deletion, substitution or adjacent transposition.
OneEdit(a, b) ==
    IsInsertion(a, b) \/ IsInsertion(b, a) \/ IsSubstitution(a, b) \/ IsTransposition(a, b)

Normalized(d) == trim(toLowerCase(d))

\* The two domains are unequal and one edit apart, after lowercasing and trimming.
OneEditApart(d1, d2) ==
    Normalized(d1) # Normalized(d2) /\ OneEdit(Normalized(d1), Normalized(d2))

\* C7: areSimilarDomains(d1, d2) is true exactly when the lowercased, trimmed
\* domains are unequal and exactly one insertion, deletion, substitution or
\* adjacent transposition apart, and the result is the same with the
\* arguments swapped.
C7_OneEditExactly ==
    Returned("areSimilarDomains") =>
        /\ dom.result = OneEditApart(dom.call.domain1, dom.call.domain2)
        /\ dom.result = areSimilarDomains(dom.call.domain2, dom.call.domain1)

\* A positive answer that rests on a transposition, between two spellings
\* that differ in case and surrounding blanks as well.
C7_Witness ==
    /\ Returned("areSimilarDomains")
    /\ dom.result = TRUE
    /\ IsTransposition(Normalized(dom.call.domain1), Normalized(dom.call.domain2))
    /\ dom.call.domain1 # Normalized(dom.call.domain1)

\* C8 as stated: for every domain, the empty string included, and all
\* non-empty addresses a, b the result is null iff lower(a) = lower(b), and the
\* letter case of either address does not change whether it is null.
C8_DropCatchingAnyDomain ==
    (Returned("checkForDomainDropCatching")
        /\ Truthy(dom.call.currentAddress) /\ Truthy(dom.call.previousAddress))
    => /\ dom.result.isNull
            = (toLowerCase(dom.call.currentAddress) = toLowerCase(dom.call.previousAddress))
       /\ \A c \in {dom.call.currentAddress, toUpperCase(dom.call.currentAddress),
                    toLowerCase(dom.call.currentAddress)} :
          \A q \in {dom.call.previousAddress, toUpperCase(dom.call.previousAddress),
                    toLowerCase(dom.call.previousAddress)} :
             checkForDomainDropCatching(dom.call.domain, c, q).isNull = dom.result.isNull

\* C8, amended: the same for every non-empty domain.
C8_DropCatchingDecision ==
    (Returned("checkForDomainDropCatching") /\ Truthy(dom.call.domain)
        /\ Truthy(dom.call.currentAddress) /\ Truthy(dom.call.previousAddress))
    => /\ dom.result.isNull
            = (toLowerCase(dom.call.currentAddress) = toLowerCase(dom.call.previousAddress))
       /\ \A c \in {dom.call.currentAddress, toUpperCase(dom.call.currentAddress),
                    toLowerCase(dom.call.currentAddress)} :
          \A q \in {dom.call.previousAddress, toUpperCase(dom.call.previousAddress),
                    toLowerCase(dom.call.previousAddress)} :
             checkForDomainDropCatching(dom.call.domain, c, q).isNull = dom.result.isNull

\* Two spellings of one address, differing in case only, for a non-empty
\* domain: no warning.
C8_Witness ==
    /\ Returned("checkForDomainDropCatching")
    /\ Truthy(dom.call.domain)
    /\ Truthy(dom.call.currentAddress)
    /\ Truthy(dom.call.previousAddress)
    /\ dom.call.currentAddress # dom.call.previousAddress
    /\ toLowerCase(dom.call.currentAddress) = toLowerCase(dom.call.previousAddress)
    /\ dom.result = Null

\* The candidates of a list that are one edit apart from the target, in order.
SimilarCandidates(target, candidates) ==
    SelectSeq(candidates, LAMBDA k : OneEditApart(target, k))

\* What C9 says of findSimilarDomains: exactly the similar candidates, in input
\* order and original spelling, none equal to the target after normalization.
FindSimilarDomainsExact ==
    Returned("findSimilarDomains") =>
        /\ dom.result = SimilarCandidates(dom.call.targetDomain, dom.call.knownDomains)
        /\ \A i \in 1..Len(dom.result) :
              Normalized(dom.result[i]) # Normalized(dom.call.targetDomain)

\* What C9 says of checkForTyposquatting on a ledger object: a warning iff
\* some key is one edit apart from the domain, suggesting the earliest such key.
TyposquattingFirstMatch ==
    LET similar == SimilarCandidates(dom.call.domain, objectKeys(dom.call.resolvedDomains))
    IN /\ dom.result.isNull = (similar = <<>>)
       /\ similar # <<>> => dom.result.suggestedDomain = similar[1]

\* C9 as stated: the iff holds for every domain, the empty string included.
C9_TyposquattingAnyDomain ==
    /\ FindSimilarDomainsExact
    /\ (Returned("checkForTyposquatting") /\ ~dom.call.resolvedDomains.isNull)
          => TyposquattingFirstMatch

\* C9, amended: checkForTyposquatting(domain, ledger) with a non-empty domain
\* returns a warning iff some ledger key is one edit apart from the domain,
\* and then suggests the earliest such key in its original spelling;
\* findSimilarDomains returns exactly the similar candidates in input order
\* and never one equal to the target after lowercasing and trimming.
C9_TyposquattingFirstMatch ==
    /\ FindSimilarDomainsExact
    /\ (Returned("checkForTyposquatting") /\ ~dom.call.resolvedDomains.isNull
          /\ Truthy(dom.call.domain))
          => TyposquattingFirstMatch

\* A warning whose suggestion is an upper-case key that is not the first key
\* of the ledger.
C9_Witness ==
    /\ Returned("checkForTyposquatting")
    /\ ~dom.result.isNull
    /\ dom.result.suggestedDomain # toLowerCase(dom.result.suggestedDomain)
    /\ dom.result.suggestedDomain # dom.call.resolvedDomains.entries[1].key

\* areSimilarDomains("uniswap.eth", d) has returned.
C14_Scenario(d) ==
    /\ Returned("areSimilarDomains")
    /\ dom.call.domain1 = UNISWAP
    /\ dom.call.domain2 = d

\* C14 as stated: areSimilarDomains("uniswap.eth", "uniswaap.eth") is true
\* and areSimilarDomains("uniswap.eth", "uniswap2.eth") is false.
C14_OneEditExamples ==
    /\ C14_Scenario(UNISWAAP) => dom.result = TRUE
    /\ C14_Scenario(UNISWAP2) => dom.result = FALSE

\* C14, amended: both examples are true, each name being "uniswap.eth" with
\* one character inserted; "uniswap22.eth", two insertions away, is false.
C14_OneInsertionExamples ==
    /\ C14_Scenario(UNISWAAP) => dom.result = TRUE
    /\ C14_Scenario(UNISWAP2) => dom.result = TRUE
    /\ C14_Scenario(UNISWAP22) => dom.result = FALSE

C14_Witness == C14_Scenario(UNISWAP2) /\ dom.result = TRUE

\* The domain is empty once surrounding whitespace is removed.
EmptyAfterTrim(d) == trim(d) = <<>>

\* C19: a domain that is empty after trimming is no signal. areSimilarDomains
\* is false when either argument is such a domain, findSimilarDomains returns
\* the empty list for such a target and checkForTyposquatting returns null
\* for it.
C19_EmptyDomainNoSignal ==
    /\ (Returned("areSimilarDomains")
          /\ (EmptyAfterTrim(dom.call.domain1) \/ EmptyAfterTrim(dom.call.domain2)))
        => dom.result = FALSE
    /\ (Returned("findSimilarDomains") /\ EmptyAfterTrim(dom.call.targetDomain))
        => dom.result = <<>>
    /\ (Returned("checkForTyposquatting") /\ EmptyAfterTrim(dom.call.domain))
        => dom.result = Null

----------------------------------------------------------------------------
(* The confirmation hook useAddressPoisoningAlert and its last-recipient
   cache (src/ui/pages/confirmations/hooks/alerts/transactions/
   useAddressPoisoningAlert.ts) *)

\* The hook imports checkForAddressPoisoningWithState from the path
\* ducks/address-poisoning. Two modules of the code base export that name:
\* address-poisoning/detection.ts (through index.ts) and the gated module,
\* whose file name is not recorded; which of them the import resolves to is
\* left open, as `module`.
checkForAddressPoisoningWithState(module, recipientAddress, flag, transactions, internalAccounts) ==
    IF module = "gated"
    THEN checkForAddressPoisoningWithState_gated(recipientAddress, flag,
                                                 transactions, internalAccounts)
    ELSE checkForAddressPoisoningWithState_det(recipientAddress, flag,
                                               transactions, internalAccounts)

\* useRef initial values.
EmptyRefs == [cacheRef |-> <<>>, lastRecipientRef |-> <<>>]

AddressPoisoningAlert ==
    [key |-> "addressPoisoningTitle", field |-> "interactingWith",
     isBlocking |-> FALSE, severity |-> "danger"]

\* txParams?.to ?? '0x'
recipientOf(txParamsTo) ==
    IF txParamsTo = UNDEFINED THEN <<"0", "x">> ELSE txParamsTo

\* The early exit on basic validation.
failsBasicValidation(props) ==
    LET recipient == recipientOf(props.txParamsTo)
    IN \/ ~Truthy(recipient)
       \/ recipient = <<"0", "x">>
       \/ ~props.isFirstTimeInteraction
       \/ props.useAddressPoisoningDetect # "true"
       \/ Len(props.transactions) = 0

\* internalAccounts.some(account => account.address?.toLowerCase() === to?.toLowerCase())
isInternalAccount(props) ==
    \E i \in 1..Len(props.internalAccounts) :
        optLowerCase(props.internalAccounts[i].address) = optLowerCase(props.to)

\* Whether the cached result is returned for this recipient.
cacheHit(refs, recipient) ==
    toLowerCase(recipient) = toLowerCase(refs.lastRecipientRef)

\* One evaluation of the hook: the refs it leaves and the value it returns.
useAddressPoisoningAlert(module, refs, props) ==
    LET recipient == recipientOf(props.txParamsTo)
        warning == checkForAddressPoisoningWithState(
                       module, recipient, props.useAddressPoisoningDetect,
                       props.transactions, props.internalAccounts)
        alertResult == IF warning.isNull THEN <<>> ELSE <<AddressPoisoningAlert>>
    IN IF failsBasicValidation(props) THEN [refs |-> refs, result |-> <<>>]
       ELSE IF isInternalAccount(props) THEN [refs |-> refs, result |-> <<>>]
       ELSE IF cacheHit(refs, recipient)
            THEN [refs |-> refs, result |-> refs.cacheRef]
       ELSE [refs |-> [cacheRef |-> alertResult, lastRecipientRef |-> recipient],
             result |-> alertResult]

----------------------------------------------------------------------------
(* Specification SpecHook: a mounted component re-renders whenever one of
   the values the hook selects changes. *)

MaxHookTx == 2

HookTxPool ==
    {Tx("confirmed", OWNER, ADDR_SENT), Tx("confirmed", ADDR_LOOKALIKE, OWNER),
     Tx("confirmed", OWNER, ADDR_LOOKALIKE)}

HookRecipientPool == {UNDEFINED, ADDR_LOOKALIKE, toLowerCase(ADDR_LOOKALIKE), ADDR_SENT}

HookToPool == {UNDEFINED, ADDR_LOOKALIKE, ADDR_SENT, OWNER}

HookAccountLists == {<<Account(OWNER)>>, <<Account(OWNER), Account(ADDR_LOOKALIKE)>>}

InitHook ==
    /\ \E module \in {"gated", "detection"} :
          hook = [module |-> module,
                  refs |-> EmptyRefs,
                  props |-> [txParamsTo |-> UNDEFINED,
                             to |-> UNDEFINED,
                             isFirstTimeInteraction |-> TRUE,
                             useAddressPoisoningDetect |-> "true",
                             transactions |-> <<>>,
                             internalAccounts |-> <<Account(OWNER)>>],
                  result |-> <<>>]
    /\ ap = Idle /\ dom = Idle /\ slice = Idle /\ runs = Idle /\ saves = Idle
    /\ ledger = Idle /\ currentChainId = Idle /\ useAddressPoisoningDetect = Idle
    /\ sim = Idle

\* The component renders with the new props; the refs carry over.
Render(props) ==
    LET eval == useAddressPoisoningAlert(hook.module, hook.refs, props)
    IN /\ hook' = [hook EXCEPT !.props = props, !.refs = eval.refs,
                               !.result = eval.result]
       /\ UNCHANGED <<ap, dom, slice, runs, saves, ledger, currentChainId,
                       useAddressPoisoningDetect, sim>>

RenderRecipientChanged ==
    \E r \in HookRecipientPool \ {hook.props.txParamsTo} :
        Render([hook.props EXCEPT !.txParamsTo = r])

RenderTransferRecipientChanged ==
    \E t \in HookToPool \ {hook.props.to} :
        Render([hook.props EXCEPT !.to = t])

RenderTransactionAdded ==
    /\ Len(hook.props.transactions) < MaxHookTx
    /\ \E tx \in HookTxPool :
          Render([hook.props EXCEPT !.transactions = Append(@, tx)])

RenderAccountsChanged ==
    \E accounts \in HookAccountLists \ {hook.props.internalAccounts} :
        Render([hook.props EXCEPT !.internalAccounts = accounts])

RenderFlagChanged ==
    \E flag \in FlagPool \ {hook.props.useAddressPoisoningDetect} :
        Render([hook.props EXCEPT !.useAddressPoisoningDetect = flag])

RenderFirstTimeInteractionChanged ==
    Render([hook.props EXCEPT !.isFirstTimeInteraction = ~@])

NextHook ==
    \/ RenderRecipientChanged
    \/ RenderTransferRecipientChanged
    \/ RenderTransactionAdded
    \/ RenderAccountsChanged
    \/ RenderFlagChanged
    \/ RenderFirstTimeInteractionChanged

SpecHook == InitHook /\ [][NextHook]_vars

\* C6: the cache is a pure optimisation. After every evaluation the value
\* returned equals the value an evaluation of the same props with the cache
\* discarded (fresh refs) returns.
C6_CacheIsPureOptimisation ==
    hook.result = useAddressPoisoningAlert(hook.module, EmptyRefs, hook.props).result

----------------------------------------------------------------------------
(* Domain resolution storage (src/unnamed/part_002) *)

EmptyObject == [isNull |-> FALSE, entries |-> <<>>]

\* obj[key], or UNDEFINED when the object has no such property.
objectGet(obj, key) ==
    IF \E i \in 1..Len(obj.entries) : obj.entries[i].key = key
    THEN obj.entries[CHOOSE i \in 1..Len(obj.entries) : obj.entries[i].key = key].value
    ELSE UNDEFINED

\* { ...obj, [key]: value }: an existing property keeps its place.
objectSet(obj, key, value) ==
    IF \E i \in 1..Len(obj.entries) : obj.entries[i].key = key
    THEN [obj EXCEPT !.entries =
            [i \in 1..Len(obj.entries) |->
                IF obj.entries[i].key = key
                THEN [key |-> key, value |-> value]
                ELSE obj.entries[i]]]
    ELSE [obj EXCEPT !.entries = Append(@, [key |-> key, value |-> value])]

\* Mutant: the read never fails.
getResolvedDomainsFromStorage_neverFails(stored, readOk) == stored

\* getResolvedDomainsFromStorage: the stored object, or {} when the storage
\* read throws.
getResolvedDomainsFromStorage(stored, readOk) ==
    IF readOk THEN stored ELSE EmptyObject

\* getPreviouslyResolvedAddress: domains[domain.toLowerCase()] || null
getPreviouslyResolvedAddress(stored, readOk, domain) ==
    LET domains == getResolvedDomainsFromStorage(stored, readOk)
        found == objectGet(domains, toLowerCase(domain))
    IN IF Truthy(found) THEN found ELSE NULLV

\* The key saveResolvedDomainToStorage files a domain under.
savedKey(domain) == toLowerCase(domain)

\* The object saveResolvedDomainToStorage writes back.
updatedDomains(existingDomains, domain, address) ==
    objectSet(existingDomains, savedKey(domain), toLowerCase(address))

----------------------------------------------------------------------------
(* The DNS slice and the lookupDomainName thunk (src/unnamed/part_001) *)

BURN_ADDRESS ==
    <<"0", "x", "0", "0", "0", "0", "0", "0", "0", "0", "0", "0", "0", "0",
      "0", "0", "0", "0", "0", "0", "0", "0", "0", "0", "0", "0", "0", "0",
      "0", "0", "0", "0", "0", "0", "0", "0", "0", "0", "0", "0", "0", "0">>
ZERO_X_ERROR_ADDRESS == <<"0", "x">>

initialState ==
    [stage |-> "UNINITIALIZED",
     resolutions |-> Null,
     error |-> "null",
     warning |-> "null",
     chainId |-> "null",
     domainName |-> NULLV,
     typosquattingWarning |-> Null,
     domainDropCatchingWarning |-> Null]

lookupStart(state, payload) ==
    [state EXCEPT !.domainName = payload,
                  !.warning = "loading",
                  !.error = "null",
                  !.typosquattingWarning = Null,
                  !.domainDropCatchingWarning = Null]

\* Mutant: lookupEnd stores the resolutions as fetched.
filteredResolutions_asFetched(resolutions) == resolutions

filteredResolutions(resolutions) ==
    SelectSeq(resolutions,
              LAMBDA resolution :
                  /\ resolution.resolvedAddress # BURN_ADDRESS
                  /\ resolution.resolvedAddress # ZERO_X_ERROR_ADDRESS)

lookupEnd(state, payload) ==
    LET cleared == [state EXCEPT !.resolutions = Null,
                                 !.error = "null",
                                 !.warning = "null",
                                 !.domainName = NULLV,
                                 !.typosquattingWarning = Null,
                                 !.domainDropCatchingWarning = Null]
        filtered == filteredResolutions(payload.resolutions)
    IN IF Len(filtered) > 0
       THEN [cleared EXCEPT
                !.resolutions = [isNull |-> FALSE, list |-> filtered],
                !.typosquattingWarning = payload.typosquattingWarning,
                !.domainDropCatchingWarning = payload.domainDropCatchingWarning]
       ELSE IF Len(payload.domainName) > 0
            THEN [cleared EXCEPT !.error = "NO_RESOLUTION_FOR_DOMAIN"]
            ELSE cleared

enableDomainLookup(state, payload) ==
    [state EXCEPT !.stage = "INITIALIZED",
                  !.error = "null",
                  !.resolutions = Null,
                  !.warning = "null",
                  !.typosquattingWarning = Null,
                  !.domainDropCatchingWarning = Null,
                  !.chainId = payload]

resetDomainResolution(state) ==
    [state EXCEPT !.resolutions = Null,
                  !.warning = "null",
                  !.error = "null",
                  !.typosquattingWarning = Null,
                  !.domainDropCatchingWarning = Null]

\* The CHAIN_CHANGED case of extraReducers.
chainChanged(state, payload) ==
    IF payload # state.chainId THEN [state EXCEPT !.stage = "UNINITIALIZED"] ELSE state

\* The typosquatting step of lookupDomainName, given what the ledger read returned.
typosquattingStep(trimmedDomainName, resolvedDomains) ==
    checkForTyposquatting(trimmedDomainName, resolvedDomains)

\* The drop-catching step of lookupDomainName, given the fetched resolutions
\* (a non-empty list) and what the ledger read returned.
dropCatchingStep(trimmedDomainName, resolutions, previousAddress) ==
    LET currentAddress == resolutions[1].resolvedAddress
    IN IF Truthy(previousAddress) /\ Truthy(currentAddress)
       THEN checkForDomainDropCatching(trimmedDomainName, currentAddress, previousAddress)
       ELSE Null

\* Mutant: the result of a superseded run is used all the same.
isStale_never(trimmedDomainName, state) == FALSE

\* Mutant: every run judges itself superseded.
isStale_always(trimmedDomainName, state) == TRUE

\* The staleness test before lookupEnd is dispatched.
isStale(trimmedDomainName, state) == trimmedDomainName # state.domainName

----------------------------------------------------------------------------
(* Specification SpecLookup: lookupDomainName runs interleave at their
   awaits with each other and with the other actions of the slice, over a
   ledger that earlier saves have left. *)

MaxRuns == 2
MaxSaves == 2

DOMAIN_AB == <<"a", "b">>
DOMAIN_AC == <<"a", "c">>

\* Domain names as typed, before trimming.
LookupDomainPool == {<<>>, <<"a", "b", " ">>, DOMAIN_AC}

ChainIdPool == {"0x1", "0x5"}

Resolution(address) == [resolvedAddress |-> address]

\* What fetchResolutions can return for a non-empty domain.
FetchResultPool ==
    {<<>>, <<Resolution(ADDR_A)>>, <<Resolution(ADDR_B)>>,
     <<Resolution(BURN_ADDRESS), Resolution(ADDR_A)>>,
     <<Resolution(ZERO_X_ERROR_ADDRESS)>>}

InitialLedgerPool ==
    {EmptyObject,
     [isNull |-> FALSE, entries |-> <<[key |-> DOMAIN_AB, value |-> ADDR_A]>>]}

InitLookup ==
    /\ slice = initialState
    /\ runs = <<>>
    /\ saves = <<>>
    /\ ledger \in InitialLedgerPool
    /\ currentChainId \in ChainIdPool
    /\ useAddressPoisoningDetect \in {"true", "false"}
    /\ ap = Idle /\ hook = Idle /\ dom = Idle /\ sim = Idle

\* The number of lookupStart actions dispatched so far.
lookupStarts(rs) == Cardinality({j \in 1..Len(rs) : rs[j].startOrder > 0})

\* A run records the ledger reads it made, how many saves had returned when
\* it started, and the position of its lookupStart among all lookupStart
\* actions (0 until it is dispatched).
\* lookupDomainName(domainName, chainId) up to its first await: the slice is
\* initialized if need be, else lookupStart is dispatched. The chainId
\* argument only selects what fetchResolutions is asked (the lookupEnd reducer
\* ignores payload.chainId), so it is covered by the choice of the fetch result.
StartLookup ==
    /\ Len(runs) < MaxRuns
    /\ \E domainName \in LookupDomainPool :
          LET trimmedDomainName == trim(domainName)
              run == [domainName |-> domainName,
                      trimmedDomainName |-> trimmedDomainName,
                      savesDone |-> Cardinality({k \in 1..Len(saves) : saves[k].pc = "done"}),
                      ledgerRead |-> "none",
                      previousRead |-> "none",
                      pc |-> IF slice.stage = "UNINITIALIZED"
                             THEN "initialized" ELSE "started",
                      startOrder |-> IF slice.stage = "UNINITIALIZED"
                                     THEN 0 ELSE lookupStarts(runs) + 1,
                      resolutions |-> <<>>,
                      typosquattingWarning |-> Null,
                      domainDropCatchingWarning |-> Null,
                      outcome |-> "pending"]
          IN /\ runs' = Append(runs, run)
             /\ slice' = IF slice.stage = "UNINITIALIZED"
                         THEN enableDomainLookup(slice, currentChainId)
                         ELSE lookupStart(slice, trimmedDomainName)
    /\ UNCHANGED <<ap, hook, dom, saves, ledger, currentChainId,
                   useAddressPoisoningDetect, sim>>

\* After `await dispatch(initializeDomainSlice())`: lookupStart is dispatched.
DispatchLookupStart(i) ==
    /\ runs[i].pc = "initialized"
    /\ slice' = lookupStart(slice, runs[i].trimmedDomainName)
    /\ runs' = [runs EXCEPT ![i].pc = "started",
                            ![i].startOrder = lookupStarts(runs) + 1]
    /\ UNCHANGED <<ap, hook, dom, saves, ledger, currentChainId,
                   useAddressPoisoningDetect, sim>>

\* fetchResolutions returns ([] at once for an empty domain) and the ledger
\* read of the typosquatting check is issued.
FetchResolutionsReturns(i) ==
    /\ runs[i].pc = "started"
    /\ \E resolutions \in FetchResultPool :
          /\ Len(runs[i].trimmedDomainName) = 0 => resolutions = <<>>
          /\ runs' = [runs EXCEPT ![i].pc = "readingLedger",
                                  ![i].resolutions = resolutions]
    /\ UNCHANGED <<ap, hook, dom, slice, saves, ledger, currentChainId,
                   useAddressPoisoningDetect, sim>>

\* Mutant: a finished lookup files its first resolution in the ledger.
storedAfterLookup_saved(stored, run) ==
    IF Len(run.resolutions) > 0
    THEN updatedDomains(stored, run.trimmedDomainName, run.resolutions[1].resolvedAddress)
    ELSE stored

\* The stored ledger after a lookup run has finished: the thunk only reads it.
storedAfterLookup(stored, run) == stored

\* The end of a run: a stale result is dropped, a current one is dispatched
\* as lookupEnd.
Finish(i, run) ==
    /\ ledger' = storedAfterLookup(ledger, run)
    /\ IF isStale(run.trimmedDomainName, slice)
       THEN /\ slice' = slice
            /\ runs' = [runs EXCEPT ![i] = [run EXCEPT !.pc = "done",
                                                       !.outcome = "discarded"]]
       ELSE /\ slice' = lookupEnd(slice,
                           [resolutions |-> run.resolutions,
                            domainName |-> run.trimmedDomainName,
                            typosquattingWarning |-> run.typosquattingWarning,
                            domainDropCatchingWarning |-> run.domainDropCatchingWarning])
            /\ runs' = [runs EXCEPT ![i] = [run EXCEPT !.pc = "done",
                                                       !.outcome = "applied"]]

\* getResolvedDomainsFromStorage returns: the typosquatting check runs; with
\* resolutions the previous address is read next, without them the run ends.
LedgerReadReturns(i) ==
    /\ runs[i].pc = "readingLedger"
    /\ \E readOk \in BOOLEAN :
          LET resolvedDomains == getResolvedDomainsFromStorage(ledger, readOk)
              run == [runs[i] EXCEPT
                         !.ledgerRead = IF readOk THEN "ok" ELSE "failed",
                         !.typosquattingWarning =
                             typosquattingStep(runs[i].trimmedDomainName, resolvedDomains)]
          IN IF Len(run.resolutions) > 0
             THEN /\ runs' = [runs EXCEPT ![i] = [run EXCEPT !.pc = "readingPrevious"]]
                  /\ slice' = slice
                  /\ ledger' = ledger
             ELSE Finish(i, run)
    /\ UNCHANGED <<ap, hook, dom, saves, currentChainId,
                   useAddressPoisoningDetect, sim>>

\* getPreviouslyResolvedAddress returns: the drop-catching check runs and the
\* run ends.
PreviousReadReturns(i) ==
    /\ runs[i].pc = "readingPrevious"
    /\ \E readOk \in BOOLEAN :
          LET previousAddress ==
                  getPreviouslyResolvedAddress(ledger, readOk, runs[i].trimmedDomainName)
              run == [runs[i] EXCEPT
                         !.previousRead = IF readOk THEN "ok" ELSE "failed",
                         !.domainDropCatchingWarning =
                             dropCatchingStep(runs[i].trimmedDomainName,
                                              runs[i].resolutions, previousAddress)]
          IN Finish(i, run)
    /\ UNCHANGED <<ap, hook, dom, saves, currentChainId,
                   useAddressPoisoningDetect, sim>>

\* dispatch(initializeDomainSlice()) from a component.
InitializeDomainSlice ==
    /\ slice.stage = "UNINITIALIZED"
    /\ slice' = enableDomainLookup(slice, currentChainId)
    /\ UNCHANGED <<ap, hook, dom, runs, saves, ledger, currentChainId,
                   useAddressPoisoningDetect, sim>>

\* dispatch(resetDomainResolution()) from a component.
ResetDomainResolution ==
    /\ slice' = resetDomainResolution(slice)
    /\ slice' # slice
    /\ UNCHANGED <<ap, hook, dom, runs, saves, ledger, currentChainId,
                   useAddressPoisoningDetect, sim>>

\* The network changes and CHAIN_CHANGED reaches the slice.
ChainChanged ==
    /\ \E chainId \in ChainIdPool \ {currentChainId} :
          /\ currentChainId' = chainId
          /\ slice' = chainChanged(slice, chainId)
    /\ UNCHANGED <<ap, hook, dom, runs, saves, ledger, useAddressPoisoningDetect, sim>>

\* Domain names handed to saveDomainResolution.
SaveDomainPool == {<<"a", "b", " ">>, DOMAIN_AC, <<"A", "C">>}

\* saveDomainResolution(domain, address, chainId) up to the return of the
\* ledger read of saveResolvedDomainToStorage. A save that starts while
\* another one is between its read and its write overlaps it.
StartSave ==
    /\ Len(saves) < MaxSaves
    /\ \E domain \in SaveDomainPool, address \in {ADDR_A_UPPER, ADDR_B},
          readOk \in BOOLEAN :
          LET overlaps == \E k \in 1..Len(saves) : saves[k].pc = "writing"
              earlier == [k \in 1..Len(saves) |->
                            IF saves[k].pc = "writing"
                            THEN [saves[k] EXCEPT !.overlapped = TRUE]
                            ELSE saves[k]]
          IN saves' = Append(earlier,
                          [domain |-> domain, address |-> address, pc |-> "writing",
                           read |-> IF readOk THEN "ok" ELSE "failed",
                           write |-> "none",
                           overlapped |-> overlaps,
                           outcome |-> "pending",
                           existingDomains |->
                               getResolvedDomainsFromStorage(ledger, readOk)])
    /\ UNCHANGED <<ap, hook, dom, slice, runs, ledger, currentChainId,
                   useAddressPoisoningDetect, sim>>

\* The storage write of a save completes, or throws and is logged; either
\* way the thunk resolves.
SaveWrites(k) ==
    /\ saves[k].pc = "writing"
    /\ \E writeOk \in BOOLEAN :
          /\ ledger' = IF writeOk
                       THEN updatedDomains(saves[k].existingDomains,
                                           saves[k].domain, saves[k].address)
                       ELSE ledger
          /\ saves' = [saves EXCEPT ![k].pc = "done",
                                    ![k].write = IF writeOk THEN "ok" ELSE "failed",
                                    ![k].outcome = "resolved"]
    /\ UNCHANGED <<ap, hook, dom, slice, runs, currentChainId,
                   useAddressPoisoningDetect, sim>>

NextLookup ==
    \/ StartLookup
    \/ \E i \in 1..Len(runs) : DispatchLookupStart(i)
    \/ \E i \in 1..Len(runs) : FetchResolutionsReturns(i)
    \/ \E i \in 1..Len(runs) : LedgerReadReturns(i)
    \/ \E i \in 1..Len(runs) : PreviousReadReturns(i)
    \/ InitializeDomainSlice
    \/ ResetDomainResolution
    \/ ChainChanged

SpecLookup == InitLookup /\ [][NextLookup]_vars

\* C4: enablement gate. With the enablement flag false no check yields a
\* warning; in particular no lookupDomainName run stores a
\* typosquattingWarning or a domainDropCatchingWarning in the slice.
C4_EnablementGate ==
    useAddressPoisoningDetect = "false" =>
        /\ slice.typosquattingWarning = Null
        /\ slice.domainDropCatchingWarning = Null

\* C5: stale result discard. A step in which a run finishes while the
\* slice's domainName differs from the run's trimmed domain leaves the slice
\* exactly as it was.
C5_StaleResultDiscarded ==
    [][\A i \in 1..Len(runs) :
          (/\ runs[i].pc # "done"
           /\ runs'[i].pc = "done"
           /\ runs[i].trimmedDomainName # slice.domainName)
              => slice' = slice]_vars

\* A run that fetched resolutions was superseded by a later lookup of another
\* domain and dropped its result while the slice was still loading.
C5_Witness ==
    \E i \in 1..Len(runs) :
        /\ runs[i].outcome = "discarded"
        /\ Len(runs[i].resolutions) > 0
        /\ slice.warning = "loading"
        /\ slice.domainName # runs[i].trimmedDomainName

\* The address-poisoning part of the enablement gate: with the flag false
\* both entry points of both modules return null.
AddressPoisoningGate ==
    (ap.entry # "none" /\ ap.flag = "false") => (ap.gated = Null /\ ap.det = Null)

----------------------------------------------------------------------------
(* Specification SpecLedger: saveDomainResolution runs and lookupDomainName
   runs interleave over the stored ledger; every storage read and write may
   fail. *)

MaxLedgerRuns == 1

InitLedger ==
    /\ InitLookup
    /\ currentChainId = "0x1"
    /\ useAddressPoisoningDetect = "true"

StartLedgerLookup ==
    /\ Len(runs) < MaxLedgerRuns
    /\ StartLookup

NextLedger ==
    \/ StartLedgerLookup
    \/ \E i \in 1..Len(runs) : DispatchLookupStart(i)
    \/ \E i \in 1..Len(runs) : FetchResolutionsReturns(i)
    \/ \E i \in 1..Len(runs) : LedgerReadReturns(i)
    \/ \E i \in 1..Len(runs) : PreviousReadReturns(i)
    \/ StartSave
    \/ \E k \in 1..Len(saves) : SaveWrites(k)

SpecLedger == InitLedger /\ [][NextLedger]_vars

LedgerKeys(obj) == {obj.entries[i].key : i \in 1..Len(obj.entries)}

\* Save k returns in this step.
SaveCompletes(k) == saves[k].pc = "writing" /\ saves'[k].pc = "done"

LastSave == saves[Len(saves)]

\* The last save has read and written the storage without failure and
\* without another save in between, and no save has started since: the
\* ledger is as this save left it.
LastSaveStands ==
    /\ Len(saves) > 0
    /\ LastSave.pc = "done"
    /\ LastSave.read = "ok" /\ LastSave.write = "ok"
    /\ ~LastSave.overlapped

CaseVariants(d) == {d, toLowerCase(d), toUpperCase(d)}

\* Run i reads the previous address successfully in this step and ends.
PreviousReadCompletes(i) ==
    /\ runs[i].pc = "readingPrevious"
    /\ runs'[i].pc = "done"
    /\ runs'[i].previousRead = "ok"

\* C15: ledger round trip. Once saveResolvedDomainToStorage(d, a, c) has
\* completed without a storage failure and nothing else has written since,
\* getPreviouslyResolvedAddress(d') returns lower(a) for every case variant
\* d' of d, and a lookup of d started after the save that reads the previous
\* address gets no drop-catching warning when it resolves to a and a warning
\* when it resolves to another address.
C15_LedgerRoundTrip ==
    /\ [](LastSaveStands =>
            \A d2 \in CaseVariants(LastSave.domain) :
                getPreviouslyResolvedAddress(ledger, TRUE, d2)
                    = toLowerCase(LastSave.address))
    /\ [][\A i \in 1..Len(runs) :
            (/\ PreviousReadCompletes(i)
             /\ LastSaveStands
             /\ runs[i].savesDone = Len(saves)
             /\ LastSave.domain = runs[i].domainName)
                => (runs'[i].domainDropCatchingWarning = Null
                      <=> toLowerCase(runs[i].resolutions[1].resolvedAddress)
                            = toLowerCase(LastSave.address))]_vars

\* C16: ledger entries are never deleted. A step in which no overlapped save
\* returns (a lookup step, or the return of a save that ran alone, whether or
\* not its storage read or write failed) keeps every key of the ledger, and
\* keeps the address of every key other than the one being saved.
C16_LedgerNeverDeletes ==
    [][(\A k \in 1..Len(saves) : SaveCompletes(k) => ~saves[k].overlapped)
          => \A key \in LedgerKeys(ledger) :
                /\ key \in LedgerKeys(ledger')
                /\ (\A k \in 1..Len(saves) :
                        SaveCompletes(k) => key # savedKey(saves[k].domain))
                      => objectGet(ledger', key) = objectGet(ledger, key)]_vars

\* The payload of lookupEnd that run i dispatches.
LookupEndPayload(run) ==
    [resolutions |-> run.resolutions,
     domainName |-> run.trimmedDomainName,
     typosquattingWarning |-> run.typosquattingWarning,
     domainDropCatchingWarning |-> run.domainDropCatchingWarning]

\* C17: ledger failures are non-fatal. A failed ledger read leaves the
\* warning it feeds null and the run goes on: it ends discarded if stale and
\* otherwise dispatches lookupEnd with the fetched resolutions; a save whose
\* write failed has resolved.
C17_LedgerFailuresNonFatal ==
    /\ [](/\ \A i \in 1..Len(runs) :
                /\ runs[i].ledgerRead = "failed"
                     => (/\ runs[i].typosquattingWarning = Null
                         /\ runs[i].pc \in {"readingPrevious", "done"})
                /\ runs[i].previousRead = "failed"
                     => (/\ runs[i].domainDropCatchingWarning = Null
                         /\ runs[i].pc = "done")
                /\ runs[i].pc = "done" => runs[i].outcome \in {"applied", "discarded"}
          /\ \A k \in 1..Len(saves) :
                saves[k].write = "failed"
                    => (saves[k].pc = "done" /\ saves[k].outcome = "resolved"))
    /\ [][\A i \in 1..Len(runs) :
            (/\ runs[i].pc # "done"
             /\ runs'[i].pc = "done"
             /\ runs'[i].ledgerRead = "failed" \/ runs'[i].previousRead = "failed"
             /\ runs[i].trimmedDomainName = slice.domainName)
                => (/\ runs'[i].outcome = "applied"
                    /\ runs'[i].resolutions = runs[i].resolutions
                    /\ slice' = lookupEnd(slice, LookupEndPayload(runs'[i])))]_vars

\* A lookup with resolutions whose two ledger reads both failed over a
\* non-empty ledger has been applied, and a save whose write failed has
\* resolved.
C17_Witness ==
    /\ \E i \in 1..Len(runs) :
          /\ runs[i].outcome = "applied"
          /\ runs[i].ledgerRead = "failed"
          /\ runs[i].previousRead = "failed"
          /\ Len(runs[i].resolutions) > 0
    /\ \E k \in 1..Len(saves) : saves[k].write = "failed"
    /\ LedgerKeys(ledger) # {}

\* C18: detection never writes the ledger. The stored ledger changes only in
\* a step in which a save returns; no step of a lookupDomainName run, with
\* the checks it calls, changes it.
C18_DetectionNeverWrites ==
    [][ledger' # ledger => \E k \in 1..Len(saves) : SaveCompletes(k)]_vars

\* A lookup has been applied with a drop-catching warning against the address
\* that an earlier save had stored.
C18_Witness ==
    /\ \E i \in 1..Len(runs) :
          /\ runs[i].outcome = "applied"
          /\ ~runs[i].domainDropCatchingWarning.isNull
          /\ LastSaveStands
          /\ runs[i].domainDropCatchingWarning.previousAddress
                = toLowerCase(LastSave.address)
          /\ savedKey(LastSave.domain) = toLowerCase(runs[i].trimmedDomainName)

----------------------------------------------------------------------------
(* Specification SpecGated: one call of performDetection of the gated
   module (src/unnamed/part_000) on a history whose transactions carry a
   value. The state keeps, next to the result, the two relation sets and the
   parsed values as the pass leaves them. *)

HexChars ==
    <<"0", "1", "2", "3", "4", "5", "6", "7", "8", "9", "a", "b", "c", "d", "e", "f">>

isHexDigit(c) == \E i \in 1..16 : HexChars[i] = toLowerCaseChar(c)

hexValue(c) == (CHOOSE i \in 1..16 : HexChars[i] = toLowerCaseChar(c)) - 1

\* A JavaScript number: NaN or an integer.
NaN == [isNaN |-> TRUE, number |-> 0]

Number(n) == [isNaN |-> FALSE, number |-> n]

\* The value of the longest run of hexadecimal digits at the start of s.
RECURSIVE hexDigitsValue(_, _)
hexDigitsValue(s, acc) ==
    IF s = <<>> \/ ~isHexDigit(s[1]) THEN acc
    ELSE hexDigitsValue(Tail(s), 16 * acc + hexValue(s[1]))

\* parseInt(value, 16): leading white space and an optional 0x are skipped;
\* NaN when no hexadecimal digit follows.
parseInt16(value) ==
    LET t == trimStart(value)
        digits == IF Len(t) >= 2 /\ t[1] = "0" /\ t[2] \in {"x", "X"}
                  THEN Tail(Tail(t)) ELSE t
    IN IF digits = <<>> \/ ~isHexDigit(digits[1]) THEN NaN
       ELSE Number(hexDigitsValue(digits, 0))

\* const txValue = value ? parseInt(value, 16) : 0
txValue_gated(tx) == IF Truthy(tx.value) THEN parseInt16(tx.value) ELSE Number(0)

\* The values the pass parses, one per transaction it looks at.
txValues_gated(transactions) ==
    LET counted == SelectSeq(transactions, txCounts_gated)
    IN [i \in 1..Len(counted) |-> txValue_gated(counted[i])]

ADDR_SENT_B ==
    <<"0", "x", "A", "A", "A", "A", "1", "1", "1", "1", "2", "2", "2", "2",
      "3", "3", "3", "3", "4", "4", "4", "4", "5", "5", "5", "5", "6", "6",
      "6", "6", "7", "7", "7", "7", "8", "8", "8", "8", "0", "0", "0", "1">>
ADDR_STRANGER ==
    <<"0", "x", "B", "B", "B", "B", "c", "c", "c", "c", "d", "d", "d", "d",
      "e", "e", "e", "e", "f", "f", "f", "f", "6", "6", "6", "6", "7", "7",
      "7", "7", "8", "8", "8", "8", "9", "9", "9", "9", "a", "a", "a", "a">>

VALUE_31 == <<"0", "x", "1", "f">>
VALUE_UNPARSEABLE == <<"z", "z">>

TxV(status, from, to, value) ==
    [status |-> status, hasTxParams |-> TRUE, from |-> from, to |-> to,
     value |-> value]

TxVNoParams ==
    [status |-> "confirmed", hasTxParams |-> FALSE, from |-> UNDEFINED,
     to |-> UNDEFINED, value |-> UNDEFINED]

GatedTxPool ==
    {TxV("confirmed", OWNER, ADDR_SENT, VALUE_31),
     TxV("confirmed", OWNER, ADDR_SENT_B, UNDEFINED),
     TxV("confirmed", OWNER, ADDR_STRANGER, VALUE_UNPARSEABLE),
     TxV("confirmed", OWNER, ADDR_LOOKALIKE, VALUE_31),
     TxV("confirmed", ADDR_LOOKALIKE, OWNER, VALUE_UNPARSEABLE),
     TxV("confirmed", ADDR_LOOKALIKE, toLowerCase(OWNER), UNDEFINED),
     TxV("submitted", OWNER, ADDR_SENT_B, VALUE_31),
     TxV("failed", ADDR_LOOKALIKE, OWNER, VALUE_31),
     TxV("confirmed", OWNER, UNDEFINED, VALUE_31),
     TxV("confirmed", UNDEFINED, OWNER, VALUE_UNPARSEABLE),
     TxVNoParams}

GatedRecipientPool == {<<>>, OWNER, ADDR_LOOKALIKE, ADDR_STRANGER}

GatedAccountLists == {<<Account(OWNER)>>, <<Account(OWNER), Account(ADDR_STRANGER)>>}

InitGated ==
    /\ \E recipientAddress \in GatedRecipientPool,
          transactions \in SeqsUpTo(GatedTxPool, MaxTx),
          internalAccounts \in GatedAccountLists :
          ap = [recipientAddress |-> recipientAddress,
                transactions |-> transactions,
                internalAccounts |-> internalAccounts,
                entry |-> "none", result |-> Null,
                addressesSentTo |-> <<>>, addressesReceivedFrom |-> <<>>,
                txValues |-> <<>>]
    /\ hook = Idle /\ dom = Idle /\ slice = Idle /\ runs = Idle /\ saves = Idle
    /\ ledger = Idle /\ currentChainId = Idle /\ useAddressPoisoningDetect = Idle
    /\ sim = Idle

\* performDetection(recipientAddress, transactions, internalAccounts) of the
\* gated module. The relation sets are those of the single pass; the pass
\* is not reached when the recipient is empty or owned.
CallPerformDetection ==
    /\ ap.entry = "none"
    /\ LET own == ownAddresses(ap.internalAccounts)
           passRuns == Truthy(ap.recipientAddress)
                          /\ ~isOwnAddress(own, ap.recipientAddress)
       IN ap' = [ap EXCEPT
                   !.entry = IF passRuns THEN "passed" ELSE "returned early",
                   !.result = performDetection_gated(
                                  ap.recipientAddress, ap.transactions,
                                  ap.internalAccounts),
                   !.addressesSentTo =
                       IF passRuns THEN addressesSentTo_gated(ap.transactions, own)
                       ELSE <<>>,
                   !.addressesReceivedFrom =
                       IF passRuns
                       THEN addressesReceivedFrom_gated(ap.transactions, own)
                       ELSE <<>>,
                   !.txValues =
                       IF passRuns THEN txValues_gated(ap.transactions) ELSE <<>>]
    /\ UNCHANGED <<hook, dom, slice, runs, saves, ledger, currentChainId,
                   useAddressPoisoningDetect, sim>>

NextGated == CallPerformDetection

SpecGated == InitGated /\ [][NextGated]_vars

\* Present: the field is there (the pools hold no empty address).
Present(x) == x # UNDEFINED

\* Owned, compared case-insensitively against the account list of the call.
Owned(x) ==
    \E k \in 1..Len(ap.internalAccounts) :
        toLowerCase(ap.internalAccounts[k].address) = toLowerCase(x)

\* Transaction i is a confirmed transfer from an owned address to a present one.
IsOutgoing(i) ==
    LET tx == ap.transactions[i]
    IN /\ tx.hasTxParams /\ tx.status = "confirmed"
       /\ Present(tx.from) /\ Owned(tx.from) /\ Present(tx.to)

\* Transaction i is a confirmed transfer from a present address to an owned one.
IsIncoming(i) ==
    LET tx == ap.transactions[i]
    IN /\ tx.hasTxParams /\ tx.status = "confirmed"
       /\ Present(tx.to) /\ Owned(tx.to) /\ Present(tx.from)

SentToSet == {toLowerCase(ap.transactions[i].to) :
                 i \in {j \in 1..Len(ap.transactions) : IsOutgoing(j)}}

ReceivedFromSet == {toLowerCase(ap.transactions[i].from) :
                       i \in {j \in 1..Len(ap.transactions) : IsIncoming(j)}}

\* Index of the first confirmed outgoing transaction to the address.
FirstOutgoingTo(addrLower) ==
    CHOOSE i \in 1..Len(ap.transactions) :
        /\ IsOutgoing(i) /\ toLowerCase(ap.transactions[i].to) = addrLower
        /\ \A j \in 1..(i - 1) :
              ~(IsOutgoing(j) /\ toLowerCase(ap.transactions[j].to) = addrLower)

\* The sent-to addresses similar to the recipient.
SimilarSentTo ==
    {a \in SentToSet : areAddressesSimilar_gated(toLowerCase(ap.recipientAddress), a)}

\* Of those, the one the owner first sent to.
FirstSimilarSentTo ==
    CHOOSE a \in SimilarSentTo :
        \A b \in SimilarSentTo : FirstOutgoingTo(a) <= FirstOutgoingTo(b)

\* The recipient reaches STEP 4: non-empty, not owned, never sent to, and it
\* has sent to the owner.
ReachesSimilarityStep ==
    /\ ap.entry = "passed"
    /\ toLowerCase(ap.recipientAddress) \notin SentToSet
    /\ toLowerCase(ap.recipientAddress) \in ReceivedFromSet

\* C21: first match wins. When the recipient reaches the similarity step and
\* some sent-to address is similar to it, the result is a warning of severity
\* "high" whose details carry the recipient as passed and whose message shows
\* the similar address the owner first sent to; when no sent-to address is
\* similar, the result is null.
C21_FirstMatchWins ==
    ReachesSimilarityStep =>
        IF SimilarSentTo # {}
        THEN /\ ~ap.result.isNull
             /\ ap.result.severity = "high"
             /\ ap.result.details.recipientAddress = ap.recipientAddress
             /\ ap.result.message[1] = slice2(ap.recipientAddress, 0, 8)
             /\ ap.result.message[2] = slice1(ap.recipientAddress, -6)
             /\ ap.result.message[3] = slice2(FirstSimilarSentTo, 0, 8)
             /\ ap.result.message[4] = slice1(FirstSimilarSentTo, -6)
        ELSE ap.result = Null

\* Two sent-to addresses are similar to the recipient, their display forms
\* differ, and the one sent to first is not the one the history ends with.
C21_Witness ==
    /\ ReachesSimilarityStep
    /\ Cardinality(SimilarSentTo) = 2
    /\ \E a \in SimilarSentTo :
          /\ a # FirstSimilarSentTo
          /\ slice1(a, -6) # slice1(FirstSimilarSentTo, -6)
          /\ FirstOutgoingTo(a) < Len(ap.transactions)
    /\ ap.recipientAddress # toLowerCase(ap.recipientAddress)
    /\ ~ap.result.isNull

\* The elements of a list, as a set.
Elements(seq) == {seq[i] : i \in 1..Len(seq)}

\* A transaction of another status, without parameter block, or missing
\* `from` or `to`.
AddsNothing(tx) ==
    \/ ~tx.hasTxParams
    \/ tx.status # "confirmed"
    \/ ~Present(tx.from)
    \/ ~Present(tx.to)

\* The history with the transactions that add nothing removed.
WithoutIdle(transactions) == SelectSeq(transactions, LAMBDA tx : ~AddsNothing(tx))

\* The history with every value replaced by the given one.
WithValue(transactions, value) ==
    [i \in 1..Len(transactions) |-> [transactions[i] EXCEPT !.value = value]]

ValuePool == {UNDEFINED, VALUE_31, VALUE_UNPARSEABLE}

----------------------------------------------------------------------------
(* Edit distance by definition: the length of a shortest chain of
   single-character operations, found breadth first. *)

\* Strings over DistChars that a chain may pass through.
EditStrings == SeqsUpTo(DistChars, MaxDistLen + 1)

\* The strings one operation away from s: one character inserted, deleted or
\* substituted, or two adjacent characters transposed.
OneOperation(s) ==
    LET n == Len(s)
        inserted == IF n > MaxDistLen THEN {}
                    ELSE {SubSeq(s, 1, k) \o <<c>> \o SubSeq(s, k + 1, n) :
                             k \in 0..n, c \in DistChars}
        deleted == {SubSeq(s, 1, k - 1) \o SubSeq(s, k + 1, n) : k \in 1..n}
        substituted == {[s EXCEPT ![k] = c] : k \in 1..n, c \in DistChars}
        transposed == {[s EXCEPT ![k] = s[k + 1], ![k + 1] = s[k]] :
                          k \in 1..(n - 1)}
    IN (inserted \cup deleted \cup substituted \cup transposed) \ {s}

OneOperationOf == [s \in EditStrings |-> OneOperation(s)]

\* The strings at most n operations away from a string of S.
RECURSIVE EditBall(_, _)
EditBall(S, n) ==
    IF n = 0 THEN S
    ELSE EditBall(S \cup UNION {OneOperationOf[s] : s \in S}, n - 1)

\* The minimum number of operations that transform a into b.
EditDistance(a, b) ==
    CHOOSE n \in 0..(Len(a) + Len(b)) :
        /\ b \in EditBall({a}, n)
        /\ n = 0 \/ b \notin EditBall({a}, n - 1)

EditDistanceOf == [a \in DistPool |-> [b \in DistPool |-> EditDistance(a, b)]]

STR_CA == <<"c", "a">>
STR_ABC == <<"a", "b", "c">>

\* damerauLevenshteinDistance is symmetric in its arguments.
DistanceSymmetric ==
    Returned("damerauLevenshteinDistance") =>
        dom.result = damerauLevenshteinDistance(dom.call.str2, dom.call.str1)

\* damerauLevenshteinDistance never returns less than the minimum number of
\* operations, and returns it whenever that minimum is at most 1.
DistanceAtLeastMinimum ==
    Returned("damerauLevenshteinDistance") =>
        LET min == EditDistanceOf[dom.call.str1][dom.call.str2]
        IN /\ dom.result >= min
           /\ min <= 1 => dom.result = min

\* C23: damerauLevenshteinDistance(a, b) is the minimum number of
\* single-character insert, delete, substitute and adjacent-transpose
\* operations that transform a into b, and is symmetric in its arguments.
C23_MinimumEditOperations ==
    Returned("damerauLevenshteinDistance") =>
        /\ dom.result = EditDistanceOf[dom.call.str1][dom.call.str2]
        /\ dom.result = damerauLevenshteinDistance(dom.call.str2, dom.call.str1)

\* The example of the claim: "ca" becomes "abc" in two operations (transpose,
\* then insert b), and the function returns 3.
DistanceExample ==
    /\ Returned("damerauLevenshteinDistance")
    /\ dom.call.str1 = STR_CA /\ dom.call.str2 = STR_ABC
    /\ EditDistanceOf[STR_CA][STR_ABC] = 2
    /\ dom.result = 3

----------------------------------------------------------------------------
(* Ordering of lookupDomainName runs *)

\* Run i dispatches lookupEnd in this step.
LookupEndDispatched(i) == runs[i].pc # "done" /\ runs'[i].outcome = "applied"

\* Run j started after run i: lookupDomainName was called later and its
\* lookupStart was dispatched later.
StartedAfter(j, i) ==
    j > i /\ runs[j].startOrder > runs[i].startOrder /\ runs[i].startOrder > 0

\* C24: latest request wins. A run dispatches lookupEnd only if no other run
\* has started after it, whatever the domain names of the runs.
C24_LatestRequestWins ==
    [][\A i \in 1..Len(runs) :
          LookupEndDispatched(i) => ~\E j \in 1..Len(runs) : StartedAfter(j, i)]_vars

----------------------------------------------------------------------------
(* Specification SpecLookupFair: SpecLookup in which every await of a
   started run returns: the continuation after initializeDomainSlice, the
   fetch of the resolutions and the two ledger reads. Calls of
   lookupDomainName and the other dispatches stay optional. *)

RunStep ==
    \E i \in 1..Len(runs) :
        \/ DispatchLookupStart(i)
        \/ FetchResolutionsReturns(i)
        \/ LedgerReadReturns(i)
        \/ PreviousReadReturns(i)

\* The flag and the first chain are fixed: neither is read by a step of a run.
InitLookupFair ==
    /\ InitLookup
    /\ currentChainId = "0x1"
    /\ useAddressPoisoningDetect = "true"

SpecLookupFair == InitLookupFair /\ [][NextLookup]_vars /\ WF_vars(RunStep)

\* C25: loading eventually clears. Once no further lookupStart is
\* dispatched, the slice reaches a state in which warning is not 'loading'
\* and stays there: it is not left loading because every finished run judged
\* itself stale.
C25_LoadingEventuallyClears == <>[](slice.warning # "loading")

\* The run that dispatched the last lookupStart judged itself stale, and the
\* slice is not loading, since an earlier run had dispatched lookupEnd.
C25_Witness ==
    /\ Len(runs) = 2
    /\ runs[1].outcome = "applied"
    /\ runs[2].outcome = "discarded"
    /\ runs[2].startOrder > runs[1].startOrder
    /\ slice.warning # "loading"

----------------------------------------------------------------------------
(* Resets and in-flight lookups *)

\* A reset or enableDomainLookup was dispatched after the last lookupStart
\* and no lookupEnd since: lookupStart leaves warning at 'loading' and only
\* it sets domainName, lookupEnd sets domainName to null, and the two resets
\* clear warning and keep domainName.
ResetSinceLookupStart == slice.warning # "loading" /\ slice.domainName # NULLV

\* The four result fields of a slice state are null.
ResultFieldsNull(state) ==
    /\ state.resolutions = Null
    /\ state.error = "null"
    /\ state.typosquattingWarning = Null
    /\ state.domainDropCatchingWarning = Null

\* C26: a reset is not undone by an in-flight lookup. From a state reached by
\* a reset (or enableDomainLookup) after the last lookupStart, every step
\* other than the next lookupStart leaves resolutions, error,
\* typosquattingWarning and domainDropCatchingWarning null.
C26_ResetNotUndone ==
    [][(ResetSinceLookupStart /\ slice'.warning # "loading")
          => ResultFieldsNull(slice')]_vars

----------------------------------------------------------------------------
(* Invariants of the slice *)

\* C27: slice invariant. In every reachable state the two warnings are
\* non-null only if resolutions is a non-empty list, and no stored resolution
\* has the burn address or '0x' as its resolvedAddress.
C27_SliceInvariant ==
    /\ (slice.typosquattingWarning # Null \/ slice.domainDropCatchingWarning # Null)
          => (slice.resolutions # Null /\ Len(slice.resolutions.list) > 0)
    /\ slice.resolutions # Null =>
          \A k \in 1..Len(slice.resolutions.list) :
              /\ slice.resolutions.list[k].resolvedAddress # BURN_ADDRESS
              /\ slice.resolutions.list[k].resolvedAddress # ZERO_X_ERROR_ADDRESS

\* One run stored a warning next to resolutions from which the burn address
\* had been filtered, and another run whose only resolution was '0x' carried
\* a warning that lookupEnd did not store.
C27_Witness ==
    \E i, j \in 1..Len(runs) :
        /\ runs[i].outcome = "applied"
        /\ Len(runs[i].resolutions) > 0
        /\ runs[i].resolutions[1].resolvedAddress = BURN_ADDRESS
        /\ runs[j].outcome = "applied"
        /\ runs[j].resolutions = <<Resolution(ZERO_X_ERROR_ADDRESS)>>
        /\ runs[j].domainDropCatchingWarning # Null
        /\ slice.resolutions # Null
        /\ slice.typosquattingWarning # Null

\* C28: the drop-catching warning matches what is shown. Whenever
\* domainDropCatchingWarning is non-null, its currentAddress is the lowercased
\* resolvedAddress of the first stored resolution, and its previousAddress
\* differs from that address.
C28_DropCatchingMatchesShown ==
    slice.domainDropCatchingWarning # Null =>
        LET shown == toLowerCase(slice.resolutions.list[1].resolvedAddress)
        IN /\ slice.domainDropCatchingWarning.currentAddress = shown
           /\ slice.domainDropCatchingWarning.previousAddress # shown

\* The warning in the slice names the burn address as the current one, and
\* its previous address is the address of the first stored resolution.
DropCatchingAgainstFiltered ==
    /\ slice.domainDropCatchingWarning # Null
    /\ slice.domainDropCatchingWarning.currentAddress = toLowerCase(BURN_ADDRESS)
    /\ slice.domainDropCatchingWarning.previousAddress
          = toLowerCase(slice.resolutions.list[1].resolvedAddress)

----------------------------------------------------------------------------
(* Overlapping saves *)

\* Saves k1 and k2, for different domains, overlapped in time and both
\* completed with their storage read and write succeeding.
OverlappingSavesDone(k1, k2) ==
    /\ k1 # k2
    /\ saves[k1].pc = "done" /\ saves[k2].pc = "done"
    /\ saves[k1].overlapped /\ saves[k2].overlapped
    /\ saves[k1].read = "ok" /\ saves[k2].read = "ok"
    /\ saves[k1].write = "ok" /\ saves[k2].write = "ok"
    /\ toLowerCase(saves[k1].domain) # toLowerCase(saves[k2].domain)

\* C29: no lost update in the ledger. After two overlapping saves for
\* different domains have both completed without storage failure, the ledger
\* holds the entries of both domains and every entry present before.
C29_NoLostUpdate ==
    \A k1, k2 \in 1..Len(saves) :
        OverlappingSavesDone(k1, k2) =>
            /\ toLowerCase(saves[k1].domain) \in LedgerKeys(ledger)
            /\ toLowerCase(saves[k2].domain) \in LedgerKeys(ledger)
            /\ LedgerKeys(saves[k1].existingDomains) \subseteq LedgerKeys(ledger)
            /\ LedgerKeys(saves[k2].existingDomains) \subseteq LedgerKeys(ledger)

----------------------------------------------------------------------------
(* Known domains and the typosquatting check *)

\* The domain of the call, lowercased and trimmed, is a key of the ledger.
DomainIsLedgerKey ==
    /\ ~dom.call.resolvedDomains.isNull
    /\ trim(toLowerCase(dom.call.domain)) \in LedgerKeys(dom.call.resolvedDomains)

\* C30: typosquatting flags only newly entered domains.
\* checkForTyposquatting(domain, ledger) returns null whenever the domain,
\* lowercased and trimmed, is already a key of the ledger.
C30_KnownDomainNotFlagged ==
    (Returned("checkForTyposquatting") /\ DomainIsLedgerKey) => dom.result = Null

\* A domain that is its own ledger key, spelled as stored, is flagged as a
\* typo of another key.
KnownDomainFlagged ==
    /\ Returned("checkForTyposquatting")
    /\ ~dom.call.resolvedDomains.isNull
    /\ dom.call.domain \in LedgerKeys(dom.call.resolvedDomains)
    /\ dom.call.domain = toLowerCase(dom.call.domain)
    /\ ~dom.result.isNull
    /\ dom.result.suggestedDomain # dom.call.domain

====
